---- MODULE Spec2Model ----
(***************************************************************************)
(* A model of functional-mcp: the AsyncRunner bridge (event_loop.py), the  *)
(* connection life cycle (loader.py, server.py), the tool binder           *)
(* (tools.py), the transformation layer (transformation.py), the tool      *)
(* collection (tools.py), the type generator (codegen.py), the server class *)
(* (server.py) and the configuration builder (config.py).                  *)
(***************************************************************************)
EXTENDS Naturals, Integers, Sequences, FiniteSets, TLC

(***************************************************************************)
(* Bounds of the model.                                                    *)
(***************************************************************************)
\* Caller threads that share one AsyncRunner.
NumThreads == 2
\* Calls (run or close) made on the runner, by all caller threads together.
MaxOps == 4

Threads == 1..NumThreads

\* A unit of work is a coroutine that returns a value (event_loop.py:52-54,
\* `async def get_value(): return 42`); it is modelled by the value it returns.
Works == {"a", "b"}

NoVal == "none"

VARIABLES
    \* ---- AsyncRunner (event_loop.py) ----
    closed,      \* AsyncRunner._closed
    loopState,   \* the background thread: "running" in run_forever, or "stopped"
    stopping,    \* the loop's stop flag, set by the loop.stop callback
    ready,       \* the loop's queue of ready callbacks
    ntodo,       \* callbacks left in the loop's current iteration
    fut,         \* per caller: the concurrent future of its run() call
    pc,          \* per caller: its position in run() or close()
    work,        \* per caller: the work of its current run() call
    outcome,     \* per caller: how its current call ended
    ops,         \* calls begun so far on the runner
    closeDone,   \* some close() call has returned
    late,        \* per caller: its current call began after a close() returned
    ctor,        \* the constructor: "init", "waiting" on the event, "returned"
    signals,     \* loop.stop signalled so far by close() calls
    \* ---- connections (loader.py, server.py) ----
    conn,        \* per connection: "none", "open", "closed" or "failed"
    runnerState, \* per connection: the AsyncRunner load_server made for it
    runnerCloses,\* per connection: close() calls made on that AsyncRunner
    loadResult,  \* per connection: what load_server returned or raised
    io,          \* collaborator operations performed, each with the loop it ran on
    \* ---- tools (tools.py, transformation.py) ----
    tool,        \* the Tool create_tool bound
    lastCall,    \* the last call of a Tool: its arguments and how it ended
    argT,        \* the last ArgTransform construction: its fields and result
    derived,     \* the Tool transform_tool returned
    xargs,       \* the transform_args given to transform_tool
    xover,       \* the name and description given to transform_tool
    \* ---- tool collections (tools.py) ----
    coll,        \* the ToolCollection: whether it is constructed, and its _tools
    lookup,      \* the last name-based access of the collection and its result
    view,        \* the last iteration, list(), toList() or len() and its result
    \* ---- type generation (codegen.py) ----
    genIn,       \* the arguments of the generate_types_file call
    genOut,      \* what the call returned or raised
    \* ---- the server class (server.py) ----
    server,      \* the class dict create_server_class built from a tool listing
    \* ---- configuration (config.py) ----
    builder,     \* the ConfigBuilder: its transport type, maps and pending key
    built        \* the last call made on the builder and what it returned or raised

bridgeVars == <<closed, loopState, stopping, ready, ntodo, fut, pc, work,
                outcome, ops, closeDone, late, ctor, signals>>

connVars == <<conn, runnerState, runnerCloses, loadResult, io>>

toolVars == <<tool, lastCall, argT, derived, xargs, xover>>

collVars == <<coll, lookup, view>>

genVars == <<genIn, genOut>>

srvVars == <<server>>

cfgVars == <<builder, built>>

vars == <<bridgeVars, connVars, toolVars, collVars, genVars, srvVars, cfgVars>>

(***************************************************************************)
(* AsyncRunner: event_loop.py                                              *)
(***************************************************************************)
NoFuture == [st |-> "none", val |-> NoVal]
PendingFuture == [st |-> "pending", val |-> NoVal]
DoneFuture(v) == [st |-> "done", val |-> v]

NoOutcome == [kind |-> "none", val |-> NoVal]
ClosedError == [kind |-> "closed_error", val |-> NoVal]
\* RuntimeError("Event loop not initialized") (line 110)
LoopNoneError == [kind |-> "loop_none_error", val |-> NoVal]
Result(v) == [kind |-> "result", val |-> v]
\* An error raised to the caller as it is.
Raised(e) == [kind |-> "raised", val |-> e]

\* A unit of work that fails is modelled by the error it raises.
Errors == {"boom"}

Callback(kind, id, v) == [cb |-> kind, id |-> id, val |-> v]

\* After __init__ returns: the background thread is in run_forever, the runner
\* is not closed and nothing is queued.
InitBridge ==
    /\ closed = FALSE
    /\ loopState = "running"
    /\ stopping = FALSE
    /\ ready = <<>>
    /\ ntodo = 0
    /\ fut = [t \in Threads |-> NoFuture]
    /\ pc = [t \in Threads |-> "idle"]
    /\ work = [t \in Threads |-> NoVal]
    /\ outcome = [t \in Threads |-> NoOutcome]
    /\ ops = 0
    /\ closeDone = FALSE
    /\ late = [t \in Threads |-> FALSE]
    /\ ctor = "returned"
    /\ signals = 0

\* A caller thread calls run(coro).
RunBegin(t, w) ==
    /\ UNCHANGED <<connVars, toolVars, collVars, genVars, srvVars, cfgVars, ctor, signals>>
    /\ ctor = "returned"
    /\ pc[t] = "idle"
    /\ ops < MaxOps
    /\ pc' = [pc EXCEPT ![t] = "run_check"]
    /\ ops' = ops + 1
    /\ work' = [work EXCEPT ![t] = w]
    /\ outcome' = [outcome EXCEPT ![t] = NoOutcome]
    /\ fut' = [fut EXCEPT ![t] = NoFuture]
    /\ late' = [late EXCEPT ![t] = closeDone]
    /\ UNCHANGED <<closed, loopState, stopping, ready, ntodo, closeDone>>

\* A run() that does not test _closed: every call goes on to submit.
RunCheckNoClosedTest(t) ==
    /\ UNCHANGED <<connVars, toolVars, collVars, genVars, srvVars, cfgVars, ctor, signals>>
    /\ pc[t] = "run_check"
    /\ pc' = [pc EXCEPT ![t] = "run_submit"]
    /\ UNCHANGED <<closed, loopState, stopping, ready, ntodo, fut, work,
                   outcome, ops, closeDone, late>>

\* run(), lines 106-110: raise when the runner is closed, and when the
\* background thread has not assigned self._loop yet.
RunCheck(t) ==
    /\ UNCHANGED <<connVars, toolVars, collVars, genVars, srvVars, cfgVars, ctor, signals>>
    /\ pc[t] = "run_check"
    /\ IF closed
       THEN /\ pc' = [pc EXCEPT ![t] = "idle"]
            /\ outcome' = [outcome EXCEPT ![t] = ClosedError]
       ELSE IF loopState \in {"unstarted", "starting"}
       THEN /\ pc' = [pc EXCEPT ![t] = "idle"]
            /\ outcome' = [outcome EXCEPT ![t] = LoopNoneError]
       ELSE /\ pc' = [pc EXCEPT ![t] = "run_submit"]
            /\ UNCHANGED outcome
    /\ UNCHANGED <<closed, loopState, stopping, ready, ntodo, fut, work,
                   ops, closeDone, late>>

\* run(), line 113: run_coroutine_threadsafe makes the call's own future and
\* queues, thread-safely, the callback that will start the coroutine.
RunSubmit(t) ==
    /\ UNCHANGED <<connVars, toolVars, collVars, genVars, srvVars, cfgVars, ctor, signals>>
    /\ pc[t] = "run_submit"
    /\ fut' = [fut EXCEPT ![t] = PendingFuture]
    /\ ready' = Append(ready, Callback("submit", t, work[t]))
    /\ pc' = [pc EXCEPT ![t] = "run_wait"]
    /\ UNCHANGED <<closed, loopState, stopping, ntodo, work, outcome, ops,
                   closeDone, late>>

\* A result() that wraps the error of the work in an error of its own.
FutureResultWrapping(f) ==
    IF f.val \in Errors THEN Raised("RuntimeError") ELSE Result(f.val)

\* future.result() (line 114) on a future that is done: the value the work
\* returned, or the error it raised, raised again as it is.
FutureResult(f) == IF f.val \in Errors THEN Raised(f.val) ELSE Result(f.val)

\* run(), line 114: future.result() blocks until the future is done; run
\* has no except clause and no loop around it.
RunResult(t) ==
    /\ UNCHANGED <<connVars, toolVars, collVars, genVars, srvVars, cfgVars, ctor, signals>>
    /\ pc[t] = "run_wait"
    /\ fut[t].st = "done"
    /\ outcome' = [outcome EXCEPT ![t] = FutureResult(fut[t])]
    /\ pc' = [pc EXCEPT ![t] = "idle"]
    /\ UNCHANGED <<closed, loopState, stopping, ready, ntodo, fut, work, ops,
                   closeDone, late>>

\* A caller thread calls close().
CloseBegin(t) ==
    /\ UNCHANGED <<connVars, toolVars, collVars, genVars, srvVars, cfgVars, ctor, signals>>
    /\ ctor = "returned"
    /\ pc[t] = "idle"
    /\ ops < MaxOps
    /\ pc' = [pc EXCEPT ![t] = "close_check"]
    /\ ops' = ops + 1
    /\ outcome' = [outcome EXCEPT ![t] = NoOutcome]
    /\ work' = [work EXCEPT ![t] = NoVal]
    /\ fut' = [fut EXCEPT ![t] = NoFuture]
    /\ late' = [late EXCEPT ![t] = closeDone]
    /\ UNCHANGED <<closed, loopState, stopping, ready, ntodo, closeDone>>

\* A close() that does not test _closed: every call closes again.
CloseCheckNoClosedTest(t) ==
    /\ UNCHANGED <<connVars, toolVars, collVars, genVars, srvVars, cfgVars, ctor, signals>>
    /\ pc[t] = "close_check"
    /\ pc' = [pc EXCEPT ![t] = "close_set"]
    /\ UNCHANGED <<closed, loopState, stopping, ready, ntodo, fut, work,
                   outcome, ops, closeDone, late>>

\* close(), lines 123-124: return at once when already closed.
CloseCheck(t) ==
    /\ UNCHANGED <<connVars, toolVars, collVars, genVars, srvVars, cfgVars, ctor, signals>>
    /\ pc[t] = "close_check"
    /\ pc' = [pc EXCEPT ![t] = IF closed THEN "idle" ELSE "close_set"]
    /\ UNCHANGED <<closed, loopState, stopping, ready, ntodo, fut, work,
                   outcome, ops, closeDone, late>>

\* close(), line 126.
CloseSet(t) ==
    /\ UNCHANGED <<connVars, toolVars, collVars, genVars, srvVars, cfgVars, ctor, signals>>
    /\ pc[t] = "close_set"
    /\ closed' = TRUE
    /\ pc' = [pc EXCEPT ![t] = "close_signal"]
    /\ UNCHANGED <<loopState, stopping, ready, ntodo, fut, work, outcome,
                   ops, closeDone, late>>

\* close(), lines 128-130: queue loop.stop on the loop, thread-safely.
CloseSignal(t) ==
    /\ UNCHANGED <<connVars, toolVars, collVars, genVars, srvVars, cfgVars, ctor>>
    /\ pc[t] = "close_signal"
    /\ signals' = signals + 1
    /\ ready' = Append(ready, Callback("stop", 0, NoVal))
    /\ pc' = [pc EXCEPT ![t] = "close_join"]
    /\ UNCHANGED <<closed, loopState, stopping, ntodo, fut, work, outcome,
                   ops, closeDone, late>>

\* A join without a timeout: it returns only when the thread has ended.
CloseJoinBlocking(t) ==
    /\ UNCHANGED <<connVars, toolVars, collVars, genVars, srvVars, cfgVars, ctor, signals>>
    /\ pc[t] = "close_join"
    /\ loopState = "stopped"
    /\ pc' = [pc EXCEPT ![t] = "idle"]
    /\ closeDone' = TRUE
    /\ UNCHANGED <<closed, loopState, stopping, ready, ntodo, fut, work,
                   outcome, ops, late>>

\* close(), lines 132-134: join(timeout=1.0) returns when the thread has ended
\* or when the second has passed, whichever comes first.
CloseJoin(t) ==
    /\ UNCHANGED <<connVars, toolVars, collVars, genVars, srvVars, cfgVars, ctor, signals>>
    /\ pc[t] = "close_join"
    /\ pc' = [pc EXCEPT ![t] = "idle"]
    /\ closeDone' = TRUE
    /\ UNCHANGED <<closed, loopState, stopping, ready, ntodo, fut, work,
                   outcome, ops, late>>

\* A loop that hands a result to every pending future, not to the call's own.
SetResultShared(f, id, v) ==
    [t \in Threads |-> IF f[t].st = "pending" THEN DoneFuture(v) ELSE f[t]]

\* The result of the task started for call `id` is set on the future that
\* run_coroutine_threadsafe returned to that call (run(), lines 113-114).
SetResult(f, id, v) == [f EXCEPT ![id] = DoneFuture(v)]

\* run_forever, between iterations: the loop takes the callbacks that are
\* ready now; those queued while it runs them wait for the next iteration.
LoopBeginIteration ==
    /\ UNCHANGED <<connVars, toolVars, collVars, genVars, srvVars, cfgVars, ctor, signals>>
    /\ loopState = "running"
    /\ ntodo = 0
    /\ ~stopping
    /\ ready # <<>>
    /\ ntodo' = Len(ready)
    /\ UNCHANGED <<closed, loopState, stopping, ready, fut, pc, work, outcome,
                   ops, closeDone, late>>

\* The loop runs the callback at the head of its queue.
\*   submit: starts the task of a run() call (its first step is queued);
\*   step:   runs the coroutine, which returns its value or raises its
\*           error (the task's done callback is queued);
\*   done:   sets the result or the exception on the call's future;
\*   stop:   loop.stop() sets the stop flag.
LoopRunCallback ==
    /\ UNCHANGED <<connVars, toolVars, collVars, genVars, srvVars, cfgVars, ctor, signals>>
    /\ loopState = "running"
    /\ ntodo > 0
    /\ LET h == Head(ready)
           rest == Tail(ready)
       IN  /\ ntodo' = ntodo - 1
           /\ CASE h.cb = "submit" ->
                     /\ ready' = Append(rest, Callback("step", h.id, h.val))
                     /\ UNCHANGED <<fut, stopping>>
                [] h.cb = "step" ->
                     /\ ready' = Append(rest, Callback("done", h.id, h.val))
                     /\ UNCHANGED <<fut, stopping>>
                [] h.cb = "done" ->
                     /\ ready' = rest
                     /\ fut' = SetResult(fut, h.id, h.val)
                     /\ UNCHANGED stopping
                [] h.cb = "stop" ->
                     /\ ready' = rest
                     /\ stopping' = TRUE
                     /\ UNCHANGED fut
    /\ UNCHANGED <<closed, loopState, pc, work, outcome, ops, closeDone, late>>

\* run_forever leaves its loop after an iteration in which stop() ran; the
\* background thread ends. Callbacks still queued are never run.
LoopExit ==
    /\ UNCHANGED <<connVars, toolVars, collVars, genVars, srvVars, cfgVars, ctor, signals>>
    /\ loopState = "running"
    /\ ntodo = 0
    /\ stopping
    /\ loopState' = "stopped"
    /\ stopping' = FALSE
    /\ UNCHANGED <<closed, ready, ntodo, fut, pc, work, outcome, ops,
                   closeDone, late>>

NextBridge ==
    \/ \E t \in Threads, w \in Works \cup Errors : RunBegin(t, w)
    \/ \E t \in Threads : RunCheck(t)
    \/ \E t \in Threads : RunSubmit(t)
    \/ \E t \in Threads : RunResult(t)
    \/ \E t \in Threads : CloseBegin(t)
    \/ \E t \in Threads : CloseCheck(t)
    \/ \E t \in Threads : CloseSet(t)
    \/ \E t \in Threads : CloseSignal(t)
    \/ \E t \in Threads : CloseJoin(t)
    \/ LoopBeginIteration
    \/ LoopRunCallback
    \/ LoopExit

\* Before __init__ has started the background thread (lines 62-64, 73-82).
InitStart ==
    /\ closed = FALSE
    /\ loopState = "unstarted"
    /\ stopping = FALSE
    /\ ready = <<>>
    /\ ntodo = 0
    /\ fut = [t \in Threads |-> NoFuture]
    /\ pc = [t \in Threads |-> "idle"]
    /\ work = [t \in Threads |-> NoVal]
    /\ outcome = [t \in Threads |-> NoOutcome]
    /\ ops = 0
    /\ closeDone = FALSE
    /\ late = [t \in Threads |-> FALSE]
    /\ ctor = "init"
    /\ signals = 0

\* One step of the start-up; the rest of the runner is left as it is.
StartStep(c, l) ==
    /\ ctor' = c
    /\ loopState' = l
    /\ UNCHANGED <<closed, stopping, ready, ntodo, fut, pc, work, outcome, ops,
                   closeDone, late, signals>>
    /\ UNCHANGED <<connVars, toolVars, collVars, genVars, srvVars, cfgVars>>

\* _start_background_loop, line 83: the thread is started.
CtorStartThread ==
    /\ ctor = "init"
    /\ StartStep("waiting", "starting")

\* run_loop, lines 77-78: the thread makes its loop and assigns self._loop.
BgCreateLoop ==
    /\ loopState = "starting"
    /\ StartStep(ctor, "created")

\* run_loop, line 79: started.set().
BgSetStarted ==
    /\ loopState = "created"
    /\ StartStep(ctor, "signalled")

\* run_loop, line 80: the thread enters run_forever.
BgRunForever ==
    /\ loopState = "signalled"
    /\ StartStep(ctor, "running")

\* A constructor that returns without waiting for the event.
CtorReturnNoBarrier ==
    /\ ctor = "waiting"
    /\ StartStep("returned", loopState)

\* _start_background_loop, line 84: started.wait() returns once the event is
\* set, and __init__ returns.
CtorReturn ==
    /\ ctor = "waiting"
    /\ loopState \in {"signalled", "running", "stopped"}
    /\ StartStep("returned", loopState)

\* A runner is constructed and run() is called on it; it is not closed.
NextStart ==
    \/ CtorStartThread
    \/ BgCreateLoop
    \/ BgSetStarted
    \/ BgRunForever
    \/ CtorReturn
    \/ \E t \in Threads, w \in Works \cup Errors : RunBegin(t, w)
    \/ \E t \in Threads : RunCheck(t)
    \/ \E t \in Threads : RunSubmit(t)
    \/ \E t \in Threads : RunResult(t)
    \/ LoopBeginIteration
    \/ LoopRunCallback

\* The background thread and the loop get to run: the scheduler does not
\* starve a thread that can take a step.
StartFairness ==
    /\ WF_vars(BgCreateLoop) /\ WF_vars(BgSetStarted) /\ WF_vars(BgRunForever)
    /\ WF_vars(LoopBeginIteration) /\ WF_vars(LoopRunCallback)


(***************************************************************************)
(* Connections: loader.py (load_server) and server.py (the server object)  *)
(***************************************************************************)
\* Connections a program loads.
NumConns == 2

Conns == 1..NumConns

\* The three ways a tool of a connection is invoked.
Vias == {"tool_object", "server_method", "sdk_callable"}

\* What a load did: how it ended, the resources and prompts it got, the
\* error _init raised and the cause of the error load_server raised, the
\* times the client was entered, and the operations of the collaborator that
\* would fail for this peer (faults).
NoLoad ==
    [status |-> "none", resources |-> "none", prompts |-> "none",
     raised |-> "none", cause |-> "none", connects |-> 0, faults |-> {}]


InitConn ==
    /\ conn = [c \in Conns |-> "none"]
    /\ runnerState = [c \in Conns |-> "none"]
    /\ runnerCloses = [c \in Conns |-> 0]
    /\ loadResult = [c \in Conns |-> NoLoad]
    /\ io = {}

IO(c, op, via, loop) == [conn |-> c, op |-> op, via |-> via, loop |-> loop]

\* An _init without the inner try blocks: a failed resource or prompt
\* listing fails the whole as a failed tool listing does.
InitCapabilitiesStrict(connectOk, toolsOk, resOk, promptsOk) ==
    LET faults == {op \in {"connect", "list_tools", "list_resources", "list_prompts"} :
                      \/ op = "connect" /\ ~connectOk
                      \/ op = "list_tools" /\ ~toolsOk
                      \/ op = "list_resources" /\ ~resOk
                      \/ op = "list_prompts" /\ ~promptsOk}
    IN
    IF connectOk /\ toolsOk /\ resOk /\ promptsOk
    THEN [NoLoad EXCEPT !.status = "ok",
                        !.resources = "listed",
                        !.prompts = "listed",
                        !.connects = 1,
                        !.faults = faults]
    ELSE [NoLoad EXCEPT !.status = "raised",
                        !.raised = IF ~connectOk THEN "connect error"
                                   ELSE IF ~toolsOk THEN "list_tools error"
                                   ELSE IF ~resOk THEN "list_resources error"
                                   ELSE "list_prompts error",
                        !.connects = 1,
                        !.faults = faults]

\* _init (loader.py:102-127), run once by runner.run (130): connecting or
\* listing the tools may fail and fails the whole with the error the
\* collaborator raised; a failed resource or prompt listing gives an empty
\* list. The client is entered once.
InitCapabilities(connectOk, toolsOk, resOk, promptsOk) ==
    LET faults == {op \in {"connect", "list_tools", "list_resources", "list_prompts"} :
                      \/ op = "connect" /\ ~connectOk
                      \/ op = "list_tools" /\ ~toolsOk
                      \/ op = "list_resources" /\ ~resOk
                      \/ op = "list_prompts" /\ ~promptsOk}
    IN
    IF connectOk /\ toolsOk
    THEN [NoLoad EXCEPT !.status = "ok",
                        !.resources = IF resOk THEN "listed" ELSE "empty",
                        !.prompts = IF promptsOk THEN "listed" ELSE "empty",
                        !.connects = 1,
                        !.faults = faults]
    ELSE [NoLoad EXCEPT !.status = "raised",
                        !.raised = IF ~connectOk THEN "connect error"
                                   ELSE "list_tools error",
                        !.connects = 1,
                        !.faults = faults]

\* A handler that raises the connection error without its cause.
LoadErrorWithoutCause(caps) ==
    [caps EXCEPT !.status = "MCPConnectionError"]

\* The except clause of load_server (loader.py:132-134), after it closed the
\* runner: raise MCPConnectionError(...) from e.
LoadError(caps) ==
    [caps EXCEPT !.status = "MCPConnectionError", !.cause = caps.raised]

\* load_server (loader.py:96-148): make the AsyncRunner, run _init on it, and
\* either close the runner and raise MCPConnectionError, or build the server
\* object from the capabilities, the client and the handlers. The runner is a
\* local of load_server and is not handed to the server object.
LoadServer(c, connectOk, toolsOk, resOk, promptsOk) ==
    /\ conn[c] = "none"
    /\ LET caps == InitCapabilities(connectOk, toolsOk, resOk, promptsOk)
       IN  /\ loadResult' = [loadResult EXCEPT ![c] =
                                IF caps.status = "ok" THEN caps
                                ELSE LoadError(caps)]
           /\ io' = io \cup {IO(c, "init", "load_server", "runner")}
           /\ IF caps.status = "ok"
              THEN /\ conn' = [conn EXCEPT ![c] = "open"]
                   /\ runnerState' = [runnerState EXCEPT ![c] = "running"]
                   /\ UNCHANGED runnerCloses
              ELSE /\ conn' = [conn EXCEPT ![c] = "failed"]
                   /\ runnerState' = [runnerState EXCEPT ![c] = "closed"]
                   /\ runnerCloses' = [runnerCloses EXCEPT ![c] = @ + 1]
    /\ UNCHANGED <<bridgeVars, toolVars, collVars, genVars, srvVars, cfgVars>>

\* The loop a tool invocation runs the collaborator's call_tool on:
\*   a Tool object's sync_executor (tools.py:344-351) makes a new event loop
\*   in the calling thread and runs the executor on it;
\*   a server method (server.py:67-74) is a coroutine function that awaits
\*   call_tool on whatever loop the caller awaits it on;
\*   an exported callable (server.py:81-89) makes a new event loop in the
\*   calling thread.
ExecLoop(via) ==
    CASE via = "tool_object" -> "new_loop"
      [] via = "server_method" -> "caller_loop"
      [] via = "sdk_callable" -> "new_loop"

\* A tool of an open connection is invoked.
ToolCall(c, via) ==
    /\ conn[c] = "open"
    /\ io' = io \cup {IO(c, "call_tool", via, ExecLoop(via))}
    /\ UNCHANGED <<conn, runnerState, runnerCloses, loadResult>>
    /\ UNCHANGED <<bridgeVars, toolVars, collVars, genVars, srvVars, cfgVars>>

\* server.close() (server.py:161-169), also reached by __exit__ (157-159):
\* run the client's __aexit__ on a new event loop. Nothing here refers to
\* the AsyncRunner.
ServerClose(c) ==
    /\ conn[c] \in {"open", "closed"}
    /\ conn' = [conn EXCEPT ![c] = "closed"]
    /\ io' = io \cup {IO(c, "aexit", "close", "new_loop")}
    /\ UNCHANGED <<runnerState, runnerCloses, loadResult>>
    /\ UNCHANGED <<bridgeVars, toolVars, collVars, genVars, srvVars, cfgVars>>

NextConn ==
    \/ \E c \in Conns, connectOk, toolsOk, resOk, promptsOk \in BOOLEAN :
          LoadServer(c, connectOk, toolsOk, resOk, promptsOk)
    \/ \E c \in Conns, via \in Vias : ToolCall(c, via)
    \/ \E c \in Conns : ServerClose(c)

(***************************************************************************)
(* Tools: tools.py (Tool, create_tool)                                     *)
(***************************************************************************)
\* Longest `required` list of an input schema.
MaxReq == 2

\* Argument names of the tools.
ArgNames == {"x", "y", "z"}
\* Argument values. None is Python's None.
None == "None"
\* A key a dict lacks, an attribute an object lacks.
Missing == "<missing>"
Vals == {"v1", "v2"}
ToolNames == {"search", "getWeather"}
Descriptions == {None, "Search for items"}

\* Python truthiness of the values used here ("0" is the number 0).
Truthy(v) == v \notin {None, "False", "0", ""}

Range(f) == {f[k] : k \in DOMAIN f}

\* The sequences that list each element of S once.
Perms(S) ==
    {f \in [1..Cardinality(S) -> S] : \A i, j \in DOMAIN f : f[i] = f[j] => i = j}

SeqsUpTo(S, n) == UNION {[1..k -> S] : k \in 0..n}

\* An input schema: the keys it has, its properties (a dict: each key once,
\* in order) and its required list. A key it lacks has the empty value here.
WellFormed(sch) ==
    /\ ("properties" \notin sch.keys => sch.props = <<>>)
    /\ ("required" \notin sch.keys => sch.req = <<>>)

Schemas ==
    {sch \in [keys : SUBSET {"properties", "required"},
              props : UNION {Perms(S) : S \in SUBSET ArgNames},
              req : SeqsUpTo(ArgNames, MaxReq)] : WellFormed(sch)}

\* input_schema.get("properties", {}) (tools.py:79, 271)
SchemaProperties(sch) == IF "properties" \in sch.keys THEN sch.props ELSE <<>>
\* input_schema.get("required", []) (tools.py:80, 272)
SchemaRequired(sch) == IF "required" \in sch.keys THEN sch.req ELSE <<>>

\* Keyword arguments: a mapping from some names to values.
Kwargs(names, vals) == UNION {[S -> vals] : S \in SUBSET names}
EmptyArgs == [n \in {} |-> None]
\* The arguments callers pass.
CallerKwargs == Kwargs(ArgNames, Vals)

\* Every property key is listed as optional, required or not.
OptionalArgsUnfiltered(props, required) == props

\* Tool.__init__, line 87: the property keys that are not required, in the
\* order of the properties.
OptionalArgs(props, required) ==
    SelectSeq(props, LAMBDA k : k \notin required)

\* Tool.__init__ (tools.py:64-91). `order` is the order in which
\* list(required) lists the set: any one. oid is the identity of the object:
\* Tool objects are numbered as they are constructed, and create_tool
\* constructs the first.
ToolInit(name, description, sch, executor, order) ==
    [name |-> name,
     description |-> IF Truthy(description) THEN description
                     ELSE "MCP tool: " \o name,
     required_args |-> order,
     optional_args |-> OptionalArgs(SchemaProperties(sch),
                                    Range(SchemaRequired(sch))),
     input_schema |-> sch,
     executor |-> executor,
     oid |-> 1,
     bound |-> TRUE]

Unbound ==
    [name |-> None, description |-> None, required_args |-> <<>>,
     optional_args |-> <<>>,
     input_schema |-> [keys |-> {}, props |-> <<>>, req |-> <<>>],
     executor |-> [name |-> None, required |-> {}], oid |-> 0,
     bound |-> FALSE]

\* create_tool (tools.py:253-358): the executor closes over the tool's name
\* and required = set(input_schema.get("required", [])).
CreateToolValue(name, description, sch, order) ==
    ToolInit(name, description, sch,
             [name |-> name, required |-> Range(SchemaRequired(sch))], order)

\* The options Tool.__call__ takes besides the tool's arguments.
ControlKeys == {"_timeout", "_progress_handler", "_meta", "_raise_on_error"}

\* Tool.__call__ (tools.py:93-121): the executor gets the caller's arguments
\* and the four options under their underscored names.
CallKwargs(kwargs, timeout, raise_on_error) ==
    [k \in DOMAIN kwargs \cup ControlKeys |->
        IF k \in DOMAIN kwargs /\ k \notin ControlKeys THEN kwargs[k]
        ELSE IF k = "_timeout" THEN timeout
        ELSE IF k = "_raise_on_error" THEN raise_on_error
        ELSE None]

\* What the collaborator's call_tool does: it raises an error, or returns a
\* result object. The result has or lacks the attributes data,
\* structured_content, content and is_error; its content is a list of
\* blocks, and a block has a text or lacks the attribute (an image).
TextBlock == [text |-> "hello"]
ImageBlock == [text |-> Missing]
NoResp ==
    [raises |-> "none", data |-> Missing, structured_content |-> Missing,
     has_content |-> FALSE, content |-> <<>>, is_error |-> Missing]
Raising(e) == [NoResp EXCEPT !.raises = e]
Results ==
    {r \in [raises : {"none"}, data : {Missing, None, "D"},
            structured_content : {Missing, None, "S"},
            has_content : BOOLEAN,
            content : {<<>>, <<TextBlock>>, <<ImageBlock>>,
                       <<ImageBlock, TextBlock>>},
            is_error : {Missing, "False", "True"}] :
        ~r.has_content => r.content = <<>>}
\* A result, or a transport failure or an error the peer reports, raised
\* by call_tool.
Responses == Results \cup {Raising("transport error"), Raising("peer error")}
\* An answer with a data payload, and a failure.
PlainResponses == {[NoResp EXCEPT !.data = "D"], Raising("transport error")}

\* What a call returns: the data payload, the structured payload, a text,
\* the content list, the result object itself, or the error record
\* {"error": True, "message": ...}.
NoReturn == [tag |-> "none", str |-> None, blocks |-> <<>>]
Return(tag, str, blocks) == [tag |-> tag, str |-> str, blocks |-> blocks]

NoOut ==
    [kind |-> "none", tool |-> None, missing |-> {}, invoked |-> FALSE,
     arguments |-> EmptyArgs, timeout |-> None, options |-> EmptyArgs,
     val |-> NoReturn, cause |-> None]

\* A normalization that prefers the structured payload to the data payload.
NormalizeStructuredFirst(result, raise_on_error) ==
    IF ~raise_on_error /\ result.is_error \notin {Missing, "False"}
    THEN IF ~result.has_content THEN [raised |-> "AttributeError", val |-> NoReturn]
         ELSE IF result.content = <<>>
         THEN [raised |-> None, val |-> Return("error", "Unknown error", <<>>)]
         ELSE IF result.content[1].text = Missing
         THEN [raised |-> "AttributeError", val |-> NoReturn]
         ELSE [raised |-> None,
               val |-> Return("error", result.content[1].text, <<>>)]
    ELSE [raised |-> None,
          val |-> IF result.structured_content \notin {Missing, None}
                  THEN Return("structured_content", result.structured_content, <<>>)
                  ELSE IF result.data \notin {Missing, None}
                  THEN Return("data", result.data, <<>>)
                  ELSE IF result.has_content
                  THEN IF result.content # <<>> /\ result.content[1].text # Missing
                       THEN Return("text", result.content[1].text, <<>>)
                       ELSE Return("content", None, result.content)
                  ELSE Return("result", None, <<>>)]

\* create_tool.executor, lines 318-337: what is made of the result that
\* call_tool returned. With raise_on_error false and a result flagged
\* is_error, the error record (319-324); reading the text of a first block
\* that has none, or the content of a result that has none, raises
\* AttributeError. Else the data, else the structured content, else the
\* text of the first block, else the content list, else the result.
Normalize(result, raise_on_error) ==
    IF ~raise_on_error /\ result.is_error \notin {Missing, "False"}
    THEN IF ~result.has_content THEN [raised |-> "AttributeError", val |-> NoReturn]
         ELSE IF result.content = <<>>
         THEN [raised |-> None, val |-> Return("error", "Unknown error", <<>>)]
         ELSE IF result.content[1].text = Missing
         THEN [raised |-> "AttributeError", val |-> NoReturn]
         ELSE [raised |-> None,
               val |-> Return("error", result.content[1].text, <<>>)]
    ELSE [raised |-> None,
          val |-> IF result.data \notin {Missing, None}
                  THEN Return("data", result.data, <<>>)
                  ELSE IF result.structured_content \notin {Missing, None}
                  THEN Return("structured_content", result.structured_content, <<>>)
                  ELSE IF result.has_content
                  THEN IF result.content # <<>> /\ result.content[1].text # Missing
                       THEN Return("text", result.content[1].text, <<>>)
                       ELSE Return("content", None, result.content)
                  ELSE Return("result", None, <<>>)]

\* An error raised as it is, not wrapped.
Unwrapped(out, name, e) == [out EXCEPT !.kind = e, !.tool = name]

\* raise MCPToolError(name, str(e), e) from e (tools.py:339-341,
\* server.py:72-74; exceptions.py:18-24): the tool's name and the error e.
MCPToolError(out, name, e) ==
    [out EXCEPT !.kind = "MCPToolError", !.tool = name, !.cause = e]

\* kwargs.pop('_timeout', None), and so on (tools.py:280-282), and the
\* call_kwargs built from them besides "arguments" (tools.py:298-307): each
\* of timeout, progress_handler and meta that is not None.
Forwarded(kw) ==
    LET Key(option) == CASE option = "timeout" -> "_timeout"
                         [] option = "progress_handler" -> "_progress_handler"
                         [] option = "meta" -> "_meta"
        Popped(option) ==
            IF Key(option) \in DOMAIN kw THEN kw[Key(option)] ELSE None
    IN  [option \in {o \in {"timeout", "progress_handler", "meta"} :
                        Popped(o) # None} |-> Popped(option)]

\* An executor that validates inside its try block: the validation error
\* is caught with the rest and wrapped.
ExecutorValidatingInTry(ex, kw, resp) ==
    LET args == [k \in DOMAIN kw \ ControlKeys |-> kw[k]]
        timeout == IF "_timeout" \in DOMAIN kw THEN kw["_timeout"] ELSE None
        raise_on_error == IF "_raise_on_error" \in DOMAIN kw
                          THEN kw["_raise_on_error"] ELSE "True"
        missing == ex.required \ DOMAIN args
        called == [NoOut EXCEPT !.invoked = TRUE, !.arguments = args,
                                !.timeout = timeout,
                                !.options = Forwarded(kw)]
        norm == Normalize(resp, Truthy(raise_on_error))
    IN  IF missing # {}
        THEN MCPToolError(NoOut, ex.name, "MCPValidationError")
        ELSE IF resp.raises # "none"
        THEN MCPToolError(called, ex.name, resp.raises)
        ELSE IF norm.raised # None
        THEN MCPToolError(called, ex.name, norm.raised)
        ELSE [called EXCEPT !.kind = "value", !.tool = ex.name,
                            !.val = norm.val]

\* An executor that puts timeout, progress_handler and meta into call_kwargs
\* whether or not they are None.
ExecutorForwardingNone(ex, kw, resp) ==
    LET args == [k \in DOMAIN kw \ ControlKeys |-> kw[k]]
        timeout == IF "_timeout" \in DOMAIN kw THEN kw["_timeout"] ELSE None
        raise_on_error == IF "_raise_on_error" \in DOMAIN kw
                          THEN kw["_raise_on_error"] ELSE "True"
        missing == ex.required \ DOMAIN args
        called == [NoOut EXCEPT !.invoked = TRUE, !.arguments = args,
                                !.timeout = timeout,
                                !.options =
                                    [o \in {"timeout", "progress_handler", "meta"}
                                        |-> IF o \in DOMAIN Forwarded(kw)
                                            THEN Forwarded(kw)[o] ELSE None]]
        norm == Normalize(resp, Truthy(raise_on_error))
    IN  IF missing # {}
        THEN [NoOut EXCEPT !.kind = "MCPValidationError", !.tool = ex.name,
                           !.missing = missing]
        ELSE IF resp.raises # "none"
        THEN MCPToolError(called, ex.name, resp.raises)
        ELSE IF norm.raised # None
        THEN MCPToolError(called, ex.name, norm.raised)
        ELSE [called EXCEPT !.kind = "value", !.tool = ex.name,
                            !.val = norm.val]

\* create_tool.executor (tools.py:275-341), run by sync_executor (344-351):
\* pop the options, raise MCPValidationError for missing required arguments
\* before the try block, else call the collaborator's call_tool and return
\* what is made of its result; whatever is raised inside the try block is
\* wrapped as MCPToolError.
Executor(ex, kw, resp) ==
    LET args == [k \in DOMAIN kw \ ControlKeys |-> kw[k]]
        timeout == IF "_timeout" \in DOMAIN kw THEN kw["_timeout"] ELSE None
        raise_on_error == IF "_raise_on_error" \in DOMAIN kw
                          THEN kw["_raise_on_error"] ELSE "True"
        missing == ex.required \ DOMAIN args
        called == [NoOut EXCEPT !.invoked = TRUE, !.arguments = args,
                                !.timeout = timeout,
                                !.options = Forwarded(kw)]
        norm == Normalize(resp, Truthy(raise_on_error))
    IN  IF missing # {}
        THEN [NoOut EXCEPT !.kind = "MCPValidationError", !.tool = ex.name,
                           !.missing = missing]
        ELSE IF resp.raises # "none"
        THEN MCPToolError(called, ex.name, resp.raises)
        ELSE IF norm.raised # None
        THEN MCPToolError(called, ex.name, norm.raised)
        ELSE [called EXCEPT !.kind = "value", !.tool = ex.name,
                            !.val = norm.val]

\* tool_method of the server class (server.py:67-74): call_tool with the
\* keyword arguments as they are, return result.content; whatever is raised
\* is wrapped as MCPToolError.
ToolMethod(name, kwargs, resp) ==
    LET called == [NoOut EXCEPT !.invoked = TRUE, !.arguments = kwargs]
    IN  IF resp.raises # "none"
        THEN MCPToolError(called, name, resp.raises)
        ELSE IF ~resp.has_content
        THEN MCPToolError(called, name, "AttributeError")
        ELSE [called EXCEPT !.kind = "value", !.tool = name,
                            !.val = Return("content", None, resp.content)]

\* Tool.__call__ on a Tool record.
CallTool(t, kwargs, timeout, raise_on_error, resp) ==
    Executor(t.executor, CallKwargs(kwargs, timeout, raise_on_error), resp)

\* The names of the keyword-only parameters of Tool.__call__ (tools.py:96-99).
OptionNames == {"timeout", "progress_handler", "meta", "raise_on_error"}

\* tool(**keywords) (tools.py:93-121): Python binds the keywords named as
\* the four parameters to them, the others to **kwargs; a parameter not
\* given has its default. The call of self._executor repeats a keyword, and
\* raises TypeError, when **kwargs has one of the underscored names.
Invoke(t, keywords, resp) ==
    LET kwargs == [k \in DOMAIN keywords \ OptionNames |-> keywords[k]]
        Given(option, default) ==
            IF option \in DOMAIN keywords THEN keywords[option] ELSE default
        base == CallKwargs(kwargs, Given("timeout", None),
                           Given("raise_on_error", "True"))
        kw == [k \in DOMAIN base |->
                 IF k = "_progress_handler" THEN Given("progress_handler", None)
                 ELSE IF k = "_meta" THEN Given("meta", None)
                 ELSE base[k]]
    IN  IF DOMAIN kwargs \cap ControlKeys # {}
        THEN [NoOut EXCEPT !.kind = "TypeError"]
        ELSE Executor(t.executor, kw, resp)

\* A call: what was called, with which arguments and raise_on_error, what
\* the collaborator did if the call reached it, and how the call ended.
Call(target, kwargs, raise_on_error, resp, out) ==
    [target |-> target, kwargs |-> kwargs, raise_on_error |-> raise_on_error,
     resp |-> IF out.invoked THEN resp ELSE NoResp, out |-> out]
NoCall == Call("none", EmptyArgs, None, NoResp, NoOut)
NoArgT ==
    [name |-> None, description |-> None, default |-> None,
     default_factory |-> None, hide |-> FALSE, required |-> None,
     type |-> None, result |-> "none"]

\* transform_tool's name and description default to None (transformation.py:72-73).
NoOverrides == [name |-> None, description |-> None]

InitTool ==
    /\ tool = Unbound
    /\ lastCall = NoCall
    /\ argT = NoArgT
    /\ derived = Unbound
    /\ xargs = EmptyArgs
    /\ xover = NoOverrides

\* create_tool is called for a capability descriptor.
CreateTool(name, description, sch, order) ==
    /\ ~tool.bound
    /\ order \in Perms(Range(SchemaRequired(sch)))
    /\ tool' = CreateToolValue(name, description, sch, order)
    /\ UNCHANGED <<lastCall, argT, derived, xargs, xover>>
    /\ UNCHANGED <<bridgeVars, connVars, collVars, genVars, srvVars, cfgVars>>

\* The bound Tool is called; the collaborator answers or raises. The executor
\* keeps no state between calls, so one call of each Tool is followed.
CallBase(kwargs, timeout, raise_on_error, resp) ==
    /\ tool.bound
    /\ lastCall = NoCall
    /\ lastCall' = Call("base", kwargs, raise_on_error, resp,
                        CallTool(tool, kwargs, timeout, raise_on_error, resp))
    /\ UNCHANGED <<tool, argT, derived, xargs, xover>>
    /\ UNCHANGED <<bridgeVars, connVars, collVars, genVars, srvVars, cfgVars>>

NextBind ==
    \/ /\ ~tool.bound
       /\ \E name \in ToolNames, d \in Descriptions, sch \in Schemas :
             \E order \in Perms(Range(SchemaRequired(sch))) :
                CreateTool(name, d, sch, order)
    \/ /\ tool.bound /\ lastCall = NoCall
       /\ \E kwargs \in CallerKwargs, timeout \in {None, "5.0"},
             resp \in PlainResponses :
             CallBase(kwargs, timeout, "True", resp)

\* The keywords callers give a Tool: values for its arguments x and y, for
\* the four parameters of Tool.__call__, and for a name the executor
\* reserves.
Keywords ==
    LET Given == [x : {Missing, "v1"}, y : {Missing, "v1"},
                  reserved : {Missing, "v1"},
                  timeout : {Missing, None, "5.0"},
                  progress_handler : {Missing, None, "on_progress"},
                  meta : {Missing, None, "trace-1"},
                  raise_on_error : {Missing, "True", "False"}]
        Of(k) == IF k = "_meta" THEN "reserved" ELSE k
    IN  {[k \in {k \in {"x", "y", "_meta"} \cup OptionNames : g[Of(k)] # Missing}
            |-> g[Of(k)]] : g \in Given}

\* The bound Tool is called with tool arguments and options.
CallWithOptions(keywords, resp) ==
    /\ tool.bound
    /\ lastCall = NoCall
    /\ lastCall' = Call("tool", keywords,
                        IF "raise_on_error" \in DOMAIN keywords
                        THEN keywords["raise_on_error"] ELSE "True",
                        resp, Invoke(tool, keywords, resp))
    /\ UNCHANGED <<tool, argT, derived, xargs, xover>>
    /\ UNCHANGED <<bridgeVars, connVars, collVars, genVars, srvVars, cfgVars>>

\* The method the server class has for the tool's descriptor is called
\* (server.py:56-74): it calls call_tool under the descriptor's name.
CallServerMethod(kwargs, resp) ==
    /\ tool.bound
    /\ lastCall = NoCall
    /\ lastCall' = Call("server_method", kwargs, None, resp,
                        ToolMethod(tool.name, kwargs, resp))
    /\ UNCHANGED <<tool, argT, derived, xargs, xover>>
    /\ UNCHANGED <<bridgeVars, connVars, collVars, genVars, srvVars, cfgVars>>

\* The schemas of the tools whose answers are followed and of the tools
\* that are transformed: x, y and z declared, some required.
BaseSchemas ==
    {sch \in Schemas :
        /\ sch.keys = {"properties", "required"}
        /\ sch.props = <<"x", "y", "z">>
        /\ \A i, j \in DOMAIN sch.req : sch.req[i] = sch.req[j] => i = j}

\* A tool requiring none, x, or x and y is called as a Tool object or as a
\* server method, and the collaborator answers in any way; or it is called
\* with options, and the collaborator answers or fails.
NextRespond ==
    \/ /\ ~tool.bound
       /\ \E sch \in {b \in BaseSchemas : b.req \in {<<>>, <<"x">>, <<"x", "y">>}} :
             CreateTool("search", None, sch, sch.req)
    \/ /\ tool.bound /\ lastCall = NoCall
       /\ \E kwargs \in Kwargs({"x", "y"}, {"v1"}), raise_on_error \in {"True", "False"},
             resp \in Responses :
             CallBase(kwargs, None, raise_on_error, resp)
    \/ /\ tool.bound /\ lastCall = NoCall
       /\ \E kwargs \in Kwargs({"x", "y"}, {"v1"}), resp \in Responses :
             CallServerMethod(kwargs, resp)
    \/ /\ tool.bound /\ lastCall = NoCall
       /\ \E keywords \in Keywords, resp \in PlainResponses :
             CallWithOptions(keywords, resp)

(***************************************************************************)
(* Transformation layer: transformation.py                                 *)
(***************************************************************************)
\* The fields an ArgTransform is constructed with (transformation.py:43-49).
ArgTFields ==
    [name : {None, "q"}, description : {None, "A query"},
     default : {None, "0", "v1"}, default_factory : {None, "factory"},
     hide : BOOLEAN, required : {None, "True", "False"},
     type : {None, "int"}]

ErrFactoryNeedsHide == "ValueError: default_factory requires hide=True"
ErrHideNeedsDefault == "ValueError: hide=True requires default or default_factory"
ErrBothDefaults == "ValueError: Cannot specify both default and default_factory"
ConfigErrors == {ErrFactoryNeedsHide, ErrHideNeedsDefault, ErrBothDefaults}

\* A validation that tests its default by truthiness, not against None.
PostInitByTruthiness(f) ==
    IF Truthy(f.default_factory) /\ ~f.hide THEN ErrFactoryNeedsHide
    ELSE IF f.hide /\ ~Truthy(f.default) /\ f.default_factory = None
         THEN ErrHideNeedsDefault
    ELSE IF Truthy(f.default) /\ f.default_factory # None
         THEN ErrBothDefaults
    ELSE "ok"

\* ArgTransform.model_post_init (transformation.py:55-67): the three rules,
\* in the order the code tests them; the first that fails raises.
ModelPostInit(f) ==
    IF Truthy(f.default_factory) /\ ~f.hide THEN ErrFactoryNeedsHide
    ELSE IF f.hide /\ f.default = None /\ f.default_factory = None
         THEN ErrHideNeedsDefault
    ELSE IF f.default # None /\ f.default_factory # None
         THEN ErrBothDefaults
    ELSE "ok"

ArgTValue(f, res) ==
    [name |-> f.name, description |-> f.description, default |-> f.default,
     default_factory |-> f.default_factory, hide |-> f.hide,
     required |-> f.required, type |-> f.type, result |-> res]

\* ArgTransform(...) is constructed.
ConstructArgTransform(f) ==
    /\ argT' = ArgTValue(f, ModelPostInit(f))
    /\ UNCHANGED <<tool, lastCall, derived, xargs, xover>>
    /\ UNCHANGED <<bridgeVars, connVars, collVars, genVars, srvVars, cfgVars>>

\* transform_tool (transformation.py:70-111): the body is a TODO and returns
\* the tool it was given, the same object; name, description and
\* transform_args are not read, and no Tool is constructed.
TransformToolValue(t, name, description, targs) == t

\* transform_tool is called on the bound Tool with one argument's transform.
TransformTool(name, description, arg) ==
    /\ tool.bound
    /\ ~derived.bound
    /\ argT.result = "ok"
    /\ xargs' = [a \in {arg} |-> argT]
    /\ xover' = [name |-> name, description |-> description]
    /\ derived' = TransformToolValue(tool, name, description,
                                     [a \in {arg} |-> argT])
    /\ UNCHANGED <<tool, lastCall, argT>>
    /\ UNCHANGED <<bridgeVars, connVars, collVars, genVars, srvVars, cfgVars>>

\* The Tool transform_tool returned is called.
CallDerived(kwargs, timeout, resp) ==
    /\ derived.bound
    /\ lastCall = NoCall
    /\ lastCall' = Call("derived", kwargs, "True", resp,
                        CallTool(derived, kwargs, timeout, "True", resp))
    /\ UNCHANGED <<tool, argT, derived, xargs, xover>>
    /\ UNCHANGED <<bridgeVars, connVars, collVars, genVars, srvVars, cfgVars>>

NextArgTransform == \E f \in ArgTFields : ConstructArgTransform(f)

\* The ArgTransforms given to transform_tool.
UsedArgTFields ==
    {f \in ArgTFields : f.description = None /\ f.required = None /\ f.type = None}

NextTransform ==
    \/ /\ ~tool.bound
       /\ \E sch \in BaseSchemas :
             \E order \in Perms(Range(SchemaRequired(sch))) :
                CreateTool("search", None, sch, order)
    \/ /\ ~derived.bound
       /\ \E f \in UsedArgTFields : ConstructArgTransform(f)
    \/ \E name \in {None, "find"}, d \in {None, "Find items"}, arg \in ArgNames :
          TransformTool(name, d, arg)
    \/ /\ tool.bound /\ lastCall = NoCall
       /\ \E kwargs \in CallerKwargs, resp \in PlainResponses :
             CallBase(kwargs, None, "True", resp)
    \/ /\ derived.bound /\ lastCall = NoCall
       /\ \E kwargs \in CallerKwargs, resp \in PlainResponses :
             CallDerived(kwargs, None, resp)

(***************************************************************************)
(* Tool collections: tools.py (ToolCollection)                             *)
(***************************************************************************)
\* Most tools in a collection.
MaxTools == 2

\* Names tools are stored and looked up under.
CollNames == {"search", "list", "get", "frobnicate", "_private"}
\* The Tool objects stored in a collection.
ToolObjs == {"toolA", "toolB"}

\* name.startswith("_") (tools.py:153), on the names above.
StartsWithUnderscore(name) == name \in {"_private"}

\* The attributes the ToolCollection class defines without a leading
\* underscore: its methods get (169), list (173), toList (177) and
\* generateTypes (185).
ClassAttrs == {"get", "list", "toList", "generateTypes"}

\* The dicts a ToolCollection is constructed with: each key once, in
\* insertion order, each with the Tool stored under it.
ToolDicts ==
    {d \in SeqsUpTo([key : CollNames, tool : ToolObjs], MaxTools) :
        \A i, j \in DOMAIN d : d[i].key = d[j].key => i = j}

\* list(self._tools.keys())
Keys(d) == [i \in DOMAIN d |-> d[i].key]
\* self._tools[name], for a key of the dict
Stored(d, name) == d[CHOOSE i \in DOMAIN d : d[i].key = name].tool

NoResult == [kind |-> "none", value |-> None, msg |-> <<>>]
Returned(v) == [kind |-> "value", value |-> v, msg |-> <<>>]
\* An AttributeError; its message is the sequence of the pieces the f-string
\* puts together.
AttributeError(msg) == [kind |-> "AttributeError", value |-> None, msg |-> msg]

\* ToolCollection.__getattr__ (tools.py:151-159).
GetAttr(d, name) ==
    IF StartsWithUnderscore(name)
    THEN AttributeError(<<"No attribute '", name, "'">>)
    ELSE IF name \in Range(Keys(d))
    THEN Returned(Stored(d, name))
    ELSE AttributeError(<<"No tool named '", name, "'. Available: ">> \o Keys(d))

\* collection.<name>: Python looks the name up on the instance and its class
\* first and calls __getattr__ only when that fails, so the name of a method
\* gives the bound method.
AttributeAccess(d, name) ==
    IF name \in ClassAttrs
    THEN [kind |-> "method", value |-> name, msg |-> <<>>]
    ELSE GetAttr(d, name)

\* ToolCollection.get (tools.py:169-171): dict.get, None for a missing key.
Get(d, name) ==
    IF name \in Range(Keys(d)) THEN Returned(Stored(d, name)) ELSE Returned(None)

NoCollection == [made |-> FALSE, tools |-> <<>>]
NoLookup == [op |-> "none", name |-> None, out |-> NoResult]

\* list(collection) by __iter__ (tools.py:161-163), len(collection) by
\* __len__ (165-167), collection.list() (173-175) and collection.toList()
\* (177-183): dict views keep insertion order. A result is the sequence of
\* its items, each a Tool, a name or the _executor of a Tool; len gives n.
ViewReversingNames(d, op) ==
    [op |-> op,
     n |-> IF op = "len" THEN Len(d) ELSE 0,
     items |->
        CASE op = "iter" -> [i \in DOMAIN d |-> [kind |-> "tool", of |-> d[i].tool]]
          [] op = "list" ->
                [i \in DOMAIN d |-> [kind |-> "name", of |-> d[Len(d) + 1 - i].key]]
          [] op = "toList" ->
                [i \in DOMAIN d |-> [kind |-> "executor", of |-> d[i].tool]]
          [] OTHER -> <<>>]

View(d, op) ==
    [op |-> op,
     n |-> IF op = "len" THEN Len(d) ELSE 0,
     items |->
        CASE op = "iter" -> [i \in DOMAIN d |-> [kind |-> "tool", of |-> d[i].tool]]
          [] op = "list" -> [i \in DOMAIN d |-> [kind |-> "name", of |-> d[i].key]]
          [] op = "toList" ->
                [i \in DOMAIN d |-> [kind |-> "executor", of |-> d[i].tool]]
          [] OTHER -> <<>>]

InitColl ==
    /\ coll = NoCollection
    /\ lookup = NoLookup
    /\ view = [op |-> "none", n |-> 0, items |-> <<>>]

\* ToolCollection(tools) (tools.py:148-149).
NewCollection(d) ==
    /\ ~coll.made
    /\ coll' = [made |-> TRUE, tools |-> d]
    /\ UNCHANGED <<lookup, view>>
    /\ UNCHANGED <<bridgeVars, connVars, toolVars, genVars, srvVars, cfgVars>>

\* collection.<name> is evaluated.
AttrLookup(name) ==
    /\ coll.made
    /\ lookup' = [op |-> "getattr", name |-> name,
                  out |-> AttributeAccess(coll.tools, name)]
    /\ UNCHANGED <<coll, view>>
    /\ UNCHANGED <<bridgeVars, connVars, toolVars, genVars, srvVars, cfgVars>>

\* collection.get(name) is called.
GetLookup(name) ==
    /\ coll.made
    /\ lookup' = [op |-> "get", name |-> name, out |-> Get(coll.tools, name)]
    /\ UNCHANGED <<coll, view>>
    /\ UNCHANGED <<bridgeVars, connVars, toolVars, genVars, srvVars, cfgVars>>

\* The collection is iterated, counted, or asked for its names or callables.
ViewCollection(op) ==
    /\ coll.made
    /\ view' = View(coll.tools, op)
    /\ UNCHANGED <<coll, lookup>>
    /\ UNCHANGED <<bridgeVars, connVars, toolVars, genVars, srvVars, cfgVars>>

NextColl ==
    \/ /\ ~coll.made
       /\ \E d \in ToolDicts : NewCollection(d)
    \/ \E name \in CollNames : AttrLookup(name)
    \/ \E name \in CollNames : GetLookup(name)
    \/ \E op \in {"iter", "len", "list", "toList"} : ViewCollection(op)

(***************************************************************************)
(* Type generation: codegen.py                                             *)
(***************************************************************************)
\* The formats generate_types_file is called with; the first three are the
\* ones it knows (codegen.py:27-32).
Supported == {"pydantic", "dataclass", "typescript"}
Formats == Supported \cup {"json", "Pydantic"}
Onlys == {None, "input", "output"}

\* A property's default: none, the string 'm' or the integer 5.
NoDefault == [kind |-> "none", v |-> ""]
PropDefaults == {NoDefault, [kind |-> "str", v |-> "m"], [kind |-> "int", v |-> "5"]}
\* repr(default) (codegen.py:84, 147): a string in quotes, a number as it is.
Repr(d) == IF d.kind = "str" THEN "'" \o d.v \o "'" ELSE d.v

\* The schema of one property. `items`, when the property has it, is the
\* schema {"type": items}.
PropSchemas ==
    {ps \in [type : {Missing, "string", "number", "integer", "boolean",
                     "array", "object", "null"},
             format : {Missing, "date-time", "uuid"},
             items : {Missing, "integer"},
             default : PropDefaults,
             description : {"", "A value"}] :
        /\ ps.format # Missing => ps.type = "string"
        /\ ps.items # Missing => ps.type = "array"}

\* schema.get("items", {}) as a property schema.
ItemsSchema(ps) ==
    [type |-> ps.items, format |-> Missing, items |-> Missing,
     default |-> NoDefault, description |-> ""]

\* The input schemas: property x with any schema, and with or without it a
\* numeric property y; `required` lists any of the two names.
PropDicts ==
    LET X == {[name |-> "x", schema |-> ps] : ps \in PropSchemas}
        Y == {[name |-> "y", schema |-> ps] :
                ps \in {q \in PropSchemas : /\ q.type \in {"number", "integer"}
                                            /\ q.description = ""}}
    IN  {<<>>} \cup {<<x>> : x \in X} \cup {<<y>> : y \in Y}
        \cup {<<x, y>> : x \in X, y \in Y} \cup {<<y, x>> : x \in X, y \in Y}

\* The schema dicts of the tools (tools.py:228-233): name, description and
\* input_schema.
GenSchemas ==
    {[name |-> t.name, description |-> t.description,
      properties |-> pd, required |-> r] :
        t \in {[name |-> "search", description |-> None],
               [name |-> "get_weather", description |-> "Get the weather"]},
        pd \in PropDicts, r \in SUBSET {"x", "y"}}

RECURSIVE ConcatAll(_)
ConcatAll(ss) == IF ss = <<>> THEN <<>> ELSE Head(ss) \o ConcatAll(Tail(ss))

\* _to_pascal_case (codegen.py:201-204), on the tool names above.
ToPascalCase(name) ==
    CASE name = "search" -> "Search"
      [] name = "get_weather" -> "GetWeather"

\* _json_type_to_python (codegen.py:207-231). A type is the sequence of the
\* pieces of its text.
RECURSIVE JsonTypeToPython(_)
JsonTypeToPythonIntAsFloat(ps) ==
    LET json_type == IF ps.type = Missing THEN "string" ELSE ps.type
    IN  CASE json_type = "string" ->
                IF ps.format = "date-time" THEN <<"datetime">>
                ELSE IF ps.format = "uuid" THEN <<"UUID">>
                ELSE <<"str">>
          [] json_type \in {"number", "integer"} -> <<"float">>
          [] json_type = "boolean" -> <<"bool">>
          [] json_type = "array" ->
                <<"list[">> \o JsonTypeToPython(ItemsSchema(ps)) \o <<"]">>
          [] json_type = "object" -> <<"dict[str, Any]">>
          [] OTHER -> <<"Any">>

JsonTypeToPython(ps) ==
    LET json_type == IF ps.type = Missing THEN "string" ELSE ps.type
    IN  CASE json_type = "string" ->
                IF ps.format = "date-time" THEN <<"datetime">>
                ELSE IF ps.format = "uuid" THEN <<"UUID">>
                ELSE <<"str">>
          [] json_type = "number" -> <<"float">>
          [] json_type = "integer" -> <<"int">>
          [] json_type = "boolean" -> <<"bool">>
          [] json_type = "array" ->
                <<"list[">> \o JsonTypeToPython(ItemsSchema(ps)) \o <<"]">>
          [] json_type = "object" -> <<"dict[str, Any]">>
          [] OTHER -> <<"Any">>

\* _json_type_to_typescript (codegen.py:234-251).
RECURSIVE JsonTypeToTypescript(_)
JsonTypeToTypescript(ps) ==
    LET json_type == IF ps.type = Missing THEN "string" ELSE ps.type
    IN  CASE json_type = "string" -> <<"string">>
          [] json_type \in {"number", "integer"} -> <<"number">>
          [] json_type = "boolean" -> <<"boolean">>
          [] json_type = "array" ->
                JsonTypeToTypescript(ItemsSchema(ps)) \o <<"[]">>
          [] json_type = "object" -> <<"Record<string, any>">>
          [] OTHER -> <<"any">>

\* The lines of one property. A line is the sequence of the pieces its
\* f-string puts together: the literal parts and the interpolated values.
\* _generate_pydantic, lines 73-97.
PydanticField(prop, required) ==
    LET ps == prop.schema
        is_required == prop.name \in required
        python_type == IF is_required THEN JsonTypeToPython(ps)
                       ELSE <<"Optional[">> \o JsonTypeToPython(ps) \o <<"]">>
        field_str == (IF ps.default # NoDefault
                      THEN <<"Field(default=", Repr(ps.default)>>
                      ELSE IF ~is_required THEN <<"Field(default=None">>
                      ELSE <<"Field(">>)
                     \o (IF ps.description # ""
                         THEN <<", description=\"", ps.description, "\"">>
                         ELSE <<>>)
                     \o <<")">>
    IN  << <<"    ", prop.name, ": ">> \o python_type \o <<" = ">> \o field_str >>

\* _generate_dataclass, lines 139-152.
DataclassField(prop, required) ==
    LET ps == prop.schema
        is_required == prop.name \in required
        python_type == IF is_required THEN JsonTypeToPython(ps)
                       ELSE <<"Optional[">> \o JsonTypeToPython(ps) \o <<"]">>
    IN  << <<"    ", prop.name, ": ">> \o python_type
           \o (IF ps.default # NoDefault THEN <<" = ", Repr(ps.default)>>
               ELSE IF ~is_required THEN <<" = None">>
               ELSE <<>>) >>

\* _generate_typescript, lines 184-193.
TypescriptField(prop, required) ==
    LET ps == prop.schema
        optional_marker == IF prop.name \in required THEN "" ELSE "?"
    IN  (IF ps.description # "" THEN << <<"  /** ", ps.description, " */">> >>
         ELSE <<>>)
        \o << <<"  ", prop.name, optional_marker, ": ">>
              \o JsonTypeToTypescript(ps) \o <<";">> >>

\* The lines of one schema, when input classes are generated.
\* _generate_pydantic, lines 57-100.
PydanticClass(sch) ==
    << <<"class ", ToPascalCase(sch.name) \o "Input", "(BaseModel):">> >>
    \o (IF Truthy(sch.description)
        THEN << <<"    \"\"\"", sch.description, "\"\"\"">>, <<"">> >> ELSE <<>>)
    \o (IF sch.properties = <<>> THEN << <<"    pass">> >>
        ELSE ConcatAll([i \in DOMAIN sch.properties |->
                          PydanticField(sch.properties[i], sch.required)]))
    \o << <<"">>, <<"">> >>

\* _generate_dataclass, lines 124-155.
DataclassClass(sch) ==
    << <<"@dataclass">>,
       <<"class ", ToPascalCase(sch.name) \o "Input", ":">> >>
    \o (IF Truthy(sch.description)
        THEN << <<"    \"\"\"", sch.description, "\"\"\"">>, <<"">> >> ELSE <<>>)
    \o (IF sch.properties = <<>> THEN << <<"    pass">> >>
        ELSE ConcatAll([i \in DOMAIN sch.properties |->
                          DataclassField(sch.properties[i], sch.required)]))
    \o << <<"">>, <<"">> >>

\* _generate_typescript, lines 174-196.
TypescriptInterface(sch) ==
    (IF Truthy(sch.description)
     THEN << <<"/** ", sch.description, " */">> >> ELSE <<>>)
    \o << <<"export interface ", ToPascalCase(sch.name) \o "Input", " {">> >>
    \o ConcatAll([i \in DOMAIN sch.properties |->
                    TypescriptField(sch.properties[i], sch.required)])
    \o << <<"}">>, <<"">> >>

\* The header lines of each format (codegen.py:39-48, 107-116, 162-166).
Header(format) ==
    LET top(c) == << <<c \o " Auto-generated types from MCP server">>,
                     <<c \o " DO NOT EDIT - regenerate with tools.generateTypes()">>,
                     <<"">> >>
        imports == << <<"from typing import Optional, Any">>,
                      <<"from datetime import datetime">>,
                      <<"from uuid import UUID">>, <<"">> >>
    IN  CASE format = "pydantic" ->
                top("#") \o << <<"from pydantic import BaseModel, Field">> >>
                \o imports
          [] format = "dataclass" ->
                top("#") \o << <<"from dataclasses import dataclass, field">> >>
                \o imports
          [] format = "typescript" -> top("//")

\* _generate_pydantic, _generate_dataclass, _generate_typescript: the header,
\* then for each schema its input class unless only = "output". The text
\* returned is these lines joined by newlines.
Generate(schemas, format, only) ==
    Header(format)
    \o ConcatAll([i \in DOMAIN schemas |->
                    IF only = None \/ only = "input"
                    THEN CASE format = "pydantic" -> PydanticClass(schemas[i])
                           [] format = "dataclass" -> DataclassClass(schemas[i])
                           [] format = "typescript" ->
                                 TypescriptInterface(schemas[i])
                    ELSE <<>>])

NoGen == [kind |-> "none", lines |-> <<>>]

\* A generator that takes an unknown format for the default one.
GenerateTypesFileDefaulting(schemas, format, only) ==
    [kind |-> "text",
     lines |-> Generate(schemas,
                        IF format \in Supported THEN format ELSE "pydantic",
                        only)]

\* generate_types_file (codegen.py:11-34).
GenerateTypesFileValue(schemas, format, only) ==
    IF format \in Supported
    THEN [kind |-> "text", lines |-> Generate(schemas, format, only)]
    ELSE [kind |-> "ValueError", lines |-> <<>>]

InitGen ==
    /\ genIn = [schemas |-> <<>>, format |-> None, only |-> None]
    /\ genOut = NoGen

\* generate_types_file is called.
GenerateTypesFile(schemas, format, only) ==
    /\ genOut = NoGen
    /\ genIn' = [schemas |-> schemas, format |-> format, only |-> only]
    /\ genOut' = GenerateTypesFileValue(schemas, format, only)
    /\ UNCHANGED <<bridgeVars, connVars, toolVars, collVars, srvVars, cfgVars>>

NextGen ==
    /\ genOut = NoGen
    /\ \E schemas \in {<<>>} \cup {<<sch>> : sch \in GenSchemas},
          format \in Formats, only \in Onlys :
          GenerateTypesFile(schemas, format, only)

(***************************************************************************)
(* The server class: server.py (create_server_class)                       *)
(***************************************************************************)
\* Longest tool name of a listing, in characters.
MaxNameLen == 3

\* The tool listings create_server_class is given: the names of the tool
\* descriptors, in listing order. The descriptor itself is its position.
\* The characters of the names are one of each class the two patterns of
\* to_snake_case tell apart: a lowercase letter, an uppercase letter, a digit
\* and the underscore.
Listings ==
    LET Chars == {"a", "A", "1", "_"}
    IN  SeqsUpTo(UNION {[1..n -> Chars] : n \in 1..MaxNameLen}, MaxTools)

\* to_snake_case (server.py:41-45):
\*   s1 = re.sub('(.)([A-Z][a-z]+)', r'\1_\2', name)
\*   re.sub('([a-z0-9])([A-Z])', r'\1_\2', s1).lower()
\* re.sub replaces the matches it finds scanning from the left, and resumes
\* after the end of each match.
ToSnakeCase(name) ==
    LET IsUpper(c) == c = "A"
        IsLower(c) == c = "a"
        IsDigit(c) == c = "1"
        \* the end of the longest run [a-z]+ that starts at k
        RECURSIVE RunEnd(_, _)
        RunEnd(s, k) ==
            IF k + 1 <= Len(s) /\ IsLower(s[k + 1]) THEN RunEnd(s, k + 1) ELSE k
        RECURSIVE Sub1(_, _)
        Sub1(s, i) ==
            IF i > Len(s) THEN <<>>
            ELSE IF i + 2 <= Len(s) /\ IsUpper(s[i + 1]) /\ IsLower(s[i + 2])
            THEN <<s[i], "_">> \o SubSeq(s, i + 1, RunEnd(s, i + 2))
                               \o Sub1(s, RunEnd(s, i + 2) + 1)
            ELSE <<s[i]>> \o Sub1(s, i + 1)
        RECURSIVE Sub2(_, _)
        Sub2(s, i) ==
            IF i > Len(s) THEN <<>>
            ELSE IF /\ i + 1 <= Len(s)
                    /\ IsLower(s[i]) \/ IsDigit(s[i])
                    /\ IsUpper(s[i + 1])
            THEN <<s[i], "_", s[i + 1]>> \o Sub2(s, i + 2)
            ELSE <<s[i]>> \o Sub2(s, i + 1)
        s2 == Sub2(Sub1(name, 1), 1)
    IN  [i \in DOMAIN s2 |-> IF IsUpper(s2[i]) THEN "a" ELSE s2[i]]

\* The loop over the tools (server.py:57-98). A dict is the sequence of its
\* items in insertion order; assigning to a key it holds replaces the value in
\* place. class_dict["tools"] is a list and is appended to.
ClassDict(tools) ==
    LET Assign(d, k, v) ==
            IF \E i \in DOMAIN d : d[i].key = k
            THEN [i \in DOMAIN d |->
                    IF d[i].key = k THEN [key |-> k, tool |-> v] ELSE d[i]]
            ELSE Append(d, [key |-> k, tool |-> v])
        RECURSIVE Bind(_)
        Bind(n) ==
            IF n = 0
            THEN [made |-> TRUE, listing |-> tools,
                  tools_map |-> <<>>, methods |-> <<>>, tools |-> <<>>]
            ELSE LET c == Bind(n - 1)
                     method_name == ToSnakeCase(tools[n])
                 IN  [c EXCEPT
                        !.tools_map = Assign(c.tools_map, method_name, n),
                        !.methods = Assign(c.methods, method_name, n),
                        !.tools = Append(c.tools,
                                         [name |-> method_name, tool |-> n])]
    IN  Bind(Len(tools))

InitServer ==
    server = [made |-> FALSE, listing |-> <<>>,
              tools_map |-> <<>>, methods |-> <<>>, tools |-> <<>>]

\* create_server_class(name, tools, ...) (server.py:12-184), its tools part.
CreateServerClass(tools) ==
    /\ ~server.made
    /\ server' = ClassDict(tools)
    /\ UNCHANGED <<bridgeVars, connVars, toolVars, collVars, genVars, cfgVars>>

NextServer == \E tools \in Listings : CreateServerClass(tools)

(***************************************************************************)
(* Configuration: config.py (ConfigBuilder)                                *)
(***************************************************************************)
\* Calls made on one ConfigBuilder.
MaxCalls == 4

\* Names of environment variables given to the builder.
EnvKeys == {"API_KEY", "DB_HOST"}

\* An empty dict of environment variables: no key has a value.
EmptyEnv == [k \in EnvKeys |-> Missing]

\* No builder is made yet. `built` records the last call and its outcome;
\* with it, the keys a with_value() call has stored so far (valued) and the
\* pending keys a later add_env() replaced (dropped), which are the history
\* of the calls and no field of the builder.
InitConfig ==
    /\ builder = [made |-> FALSE, transport_type |-> "stdio", env |-> EmptyEnv,
                  env_vars |-> EmptyEnv, pending |-> None, calls |-> 0]
    /\ built = [op |-> "none", out |-> "none", env |-> EmptyEnv,
                env_vars |-> EmptyEnv, valued |-> {}, dropped |-> {}]

\* create_config(name, transport_type) (config.py:298-310), which is
\* ConfigBuilder(name, transport_type) (152-164).
CreateConfig(transport_type) ==
    /\ ~builder.made
    /\ builder' = [builder EXCEPT !.made = TRUE,
                                  !.transport_type = transport_type]
    /\ UNCHANGED built
    /\ UNCHANGED <<bridgeVars, connVars, toolVars, collVars, genVars, srvVars>>

\* ConfigBuilder.add_env (config.py:166-179).
AddEnv(key) ==
    /\ builder.made /\ builder.calls < MaxCalls
    /\ builder' = [builder EXCEPT !.pending = key, !.calls = @ + 1]
    /\ built' = [built EXCEPT
                    !.op = "add_env", !.out = "self",
                    !.env = EmptyEnv, !.env_vars = EmptyEnv,
                    !.dropped = IF builder.pending \in EnvKeys \ {key}
                                THEN @ \cup {builder.pending} ELSE @]
    /\ UNCHANGED <<bridgeVars, connVars, toolVars, collVars, genVars, srvVars>>

\* ConfigBuilder.with_value with every transport writing self._env.
WithValueEnvOnly(value) ==
    /\ builder.made /\ builder.calls < MaxCalls
    /\ IF builder.pending = None
       THEN /\ builder' = [builder EXCEPT !.calls = @ + 1]
            /\ built' = [built EXCEPT !.op = "with_value", !.out = "ValueError",
                            !.env = EmptyEnv, !.env_vars = EmptyEnv]
       ELSE /\ builder' = [builder EXCEPT
                            !.env[builder.pending] = value,
                            !.pending = None, !.calls = @ + 1]
            /\ built' = [built EXCEPT !.op = "with_value", !.out = "self",
                            !.env = EmptyEnv, !.env_vars = EmptyEnv,
                            !.valued = @ \cup {builder.pending}]
    /\ UNCHANGED <<bridgeVars, connVars, toolVars, collVars, genVars, srvVars>>

\* ConfigBuilder.with_value (config.py:181-201).
WithValue(value) ==
    /\ builder.made /\ builder.calls < MaxCalls
    /\ IF builder.pending = None
       THEN /\ builder' = [builder EXCEPT !.calls = @ + 1]
            /\ built' = [built EXCEPT !.op = "with_value", !.out = "ValueError",
                            !.env = EmptyEnv, !.env_vars = EmptyEnv]
       ELSE /\ builder' =
                IF builder.transport_type \in {"npx", "uv", "uvx"}
                THEN [builder EXCEPT !.env_vars[builder.pending] = value,
                                     !.pending = None, !.calls = @ + 1]
                ELSE [builder EXCEPT !.env[builder.pending] = value,
                                     !.pending = None, !.calls = @ + 1]
            /\ built' = [built EXCEPT !.op = "with_value", !.out = "self",
                            !.env = EmptyEnv, !.env_vars = EmptyEnv,
                            !.valued = @ \cup {builder.pending}]
    /\ UNCHANGED <<bridgeVars, connVars, toolVars, collVars, genVars, srvVars>>

\* ConfigBuilder.init (config.py:270-295): the StdioConfig it returns, by its
\* env and env_vars.
ConfigInit ==
    /\ builder.made /\ builder.calls < MaxCalls
    /\ builder' = [builder EXCEPT !.calls = @ + 1]
    /\ built' = IF builder.pending # None
                THEN [built EXCEPT !.op = "init", !.out = "ValueError",
                                   !.env = EmptyEnv, !.env_vars = EmptyEnv]
                ELSE [built EXCEPT !.op = "init", !.out = "StdioConfig",
                                   !.env = builder.env,
                                   !.env_vars = builder.env_vars]
    /\ UNCHANGED <<bridgeVars, connVars, toolVars, collVars, genVars, srvVars>>

\* A builder is made for one of the transport types (TransportType,
\* config.py:15) and called.
NextConfig ==
    \/ \E transport_type \in {"stdio", "http", "python", "node", "uv", "uvx", "npx"} :
          CreateConfig(transport_type)
    \/ \E key \in EnvKeys : AddEnv(key)
    \/ \E value \in {"secret", "prod.db.com"} : WithValue(value)
    \/ ConfigInit

(***************************************************************************)
(* Specifications                                                          *)
(***************************************************************************)
Init ==
    /\ InitBridge /\ InitConn /\ InitTool /\ InitColl /\ InitGen
    /\ InitServer /\ InitConfig

\* Caller threads and the loop thread of one AsyncRunner.
SpecBridge == Init /\ [][NextBridge]_vars

\* An AsyncRunner being constructed, then run() calls on it.
InitStarting ==
    /\ InitStart /\ InitConn /\ InitTool /\ InitColl /\ InitGen
    /\ InitServer /\ InitConfig

SpecStart == InitStarting /\ [][NextStart]_vars /\ StartFairness

\* Connections being loaded, used and closed.
SpecConn == Init /\ [][NextConn]_vars

\* A capability bound by create_tool and called.
SpecBind == Init /\ [][NextBind]_vars

\* ArgTransforms being constructed.
SpecArgTransform == Init /\ [][NextArgTransform]_vars

\* A bound Tool, or the server method of its descriptor, called, with every
\* answer of the collaborator.
SpecRespond == Init /\ [][NextRespond]_vars

\* A bound Tool transformed by transform_tool, base and derived Tool called.
SpecTransform == Init /\ [][NextTransform]_vars

\* A ToolCollection constructed and accessed by name.
SpecColl == Init /\ [][NextColl]_vars

\* Type definitions generated from tool schemas.
SpecGen == Init /\ [][NextGen]_vars

\* The server class being made from a tool listing.
SpecServer == Init /\ [][NextServer]_vars

\* Calls on a ConfigBuilder.
SpecConfig == Init /\ [][NextConfig]_vars

(***************************************************************************)
(* Claims about the AsyncRunner, checked under SpecBridge.                 *)
(***************************************************************************)
\* C1: a run() called after a close() has returned raises the closed error:
\* it never reaches the submission of its work (line 113), never waits, never
\* returns a result, and no callback of it is on the loop.
C1_RunAfterCloseRaises ==
    \A t \in Threads :
        (late[t] /\ work[t] # NoVal)
        => /\ pc[t] \in {"run_check", "idle"}
           /\ outcome[t] = IF pc[t] = "idle" THEN ClosedError ELSE NoOutcome
           /\ fut[t] = NoFuture
           /\ \A i \in 1..Len(ready) : ready[i].id # t

\* A run() that began after a close() returned has raised the closed error.
C1_Witness ==
    \E t \in Threads :
        late[t] /\ pc[t] = "idle" /\ work[t] # NoVal /\ outcome[t] = ClosedError

\* C2: a caller of run() is never left blocked for good, whatever close() does
\* meanwhile: a caller waiting in future.result() has a future that is done or
\* a loop thread that is still alive to complete it. (Once the loop thread has
\* ended nothing sets a future, so the state refuted here is a caller blocked
\* forever.)
C2_RunNeverBlockedForever ==
    \A t \in Threads :
        pc[t] = "run_wait" => (fut[t].st = "done" \/ loopState = "running")

\* C3: a close() called after a close() has returned is a no-op: it returns at
\* its first test and changes nothing of the runner or of the loop.
C3_SecondCloseNoOp ==
    [][\A t \in Threads :
          (late[t] /\ pc[t] = "close_check" /\ pc'[t] # pc[t])
          => /\ pc'[t] = "idle"
             /\ UNCHANGED <<closed, loopState, stopping, ready, ntodo, fut>>]_vars

\* A close() that began after a close() returned has itself returned.
C3_Witness ==
    \E t \in Threads :
        /\ late[t] /\ pc[t] = "idle" /\ closeDone
        /\ work[t] = NoVal /\ outcome[t] = NoOutcome

\* C4: every run() that returns a result returns the result of its own work.
C4_OwnResult ==
    \A t \in Threads : outcome[t].kind = "result" => outcome[t].val = work[t]

\* Two run() calls with different work are in flight at once and the loop has
\* completed both.
C4_Witness ==
    /\ \A t \in Threads : pc[t] = "run_wait" /\ fut[t].st = "done"
    /\ \E t, u \in Threads : fut[t].val # fut[u].val

\* C21: when the work given to run() fails, run() raises that same error,
\* not wrapped, and the work is not submitted again: once its future is done
\* no callback of the call is on the loop.
C21_WorkErrorPropagates ==
    \A t \in Threads :
        /\ outcome[t].kind = "raised" => outcome[t] = Raised(work[t])
        /\ (work[t] \in Errors /\ fut[t].st = "done")
           => /\ fut[t].val = work[t]
              /\ \A i \in 1..Len(ready) : ready[i].id # t
              /\ pc[t] = "idle" => outcome[t] = Raised(work[t])

\* A run() whose work failed has raised the work's error.
C21_Witness ==
    \E t \in Threads : pc[t] = "idle" /\ outcome[t] = Raised("boom")

\* C23: when two threads call close() on one runner at once, the loop stop
\* is signalled by one of the calls only.
C23_StopSignalledOnce == signals <= 1

\* C24: close() always returns, and without raising, also while the
\* background thread has not stopped: each step of a close() call can be
\* taken whatever the loop is doing, and when the call returns the runner is
\* marked closed and no error was raised.
C24_CloseReturnsNormally ==
    /\ [](\A t \in Threads :
            pc[t] \in {"close_check", "close_set", "close_signal", "close_join"}
            => ENABLED (CloseCheck(t) \/ CloseSet(t) \/ CloseSignal(t)
                        \/ CloseJoin(t)))
    /\ [][\A t \in Threads :
            (pc[t] \in {"close_check", "close_join"} /\ pc'[t] = "idle")
            => closed' /\ outcome'[t] = NoOutcome]_vars

\* A close() has returned while the background thread is still in
\* run_forever with the work of a run() call on the loop.
C24_Witness ==
    /\ closeDone /\ closed /\ loopState = "running"
    /\ \E i \in 1..Len(ready) : ready[i].cb \in {"submit", "step"}

(***************************************************************************)
(* Claims about the construction of the AsyncRunner, checked under         *)
(* SpecStart.                                                              *)
(***************************************************************************)
\* C22: the constructor returns only after the background thread has made
\* its loop: a run() on the constructed runner never finds the loop
\* unassigned, and the work it submits is eventually run by the loop and its
\* future completed.
C22_LoopReadyAfterConstruction ==
    /\ [](\A t \in Threads :
            /\ outcome[t] # LoopNoneError
            /\ ctor = "returned" => loopState \notin {"unstarted", "starting"})
    /\ \A t \in Threads : (pc[t] = "run_wait") ~> (fut[t].st = "done")

\* A run() has submitted its work before the background thread entered
\* run_forever.
C22_Witness ==
    /\ ctor = "returned" /\ loopState = "signalled"
    /\ \E t \in Threads : pc[t] = "run_wait"

(***************************************************************************)
(* Claims about connections, checked under SpecConn.                       *)
(***************************************************************************)
\* C5: closing a connection closes the AsyncRunner load_server made for it,
\* exactly once: no closed connection has a runner that is still running.
C5_CloseClosesRunnerOnce ==
    \A c \in Conns :
        conn[c] = "closed"
        => runnerState[c] = "closed" /\ runnerCloses[c] = 1

\* C6: every tool invocation of a loaded connection runs the collaborator's
\* call_tool on the loop of that connection's AsyncRunner.
C6_ToolCallsOnRunnerLoop ==
    \A e \in io : e.op = "call_tool" => e.loop = "runner"

\* C18: when connecting or listing the tools fails during load_server, the
\* call raises MCPConnectionError whose cause is the error that was raised,
\* the AsyncRunner made for the attempt has been closed (once) when the error
\* reaches the caller, and the peer was connected to once only.
C18_LoadFailureClosesRunner ==
    \A c \in Conns :
        /\ loadResult[c].raised # "none"
           => /\ loadResult[c].status = "MCPConnectionError"
              /\ loadResult[c].cause = loadResult[c].raised
              /\ conn[c] = "failed"
              /\ runnerState[c] = "closed" /\ runnerCloses[c] = 1
              /\ loadResult[c].connects = 1
              /\ Cardinality({e \in io : e.conn = c}) = 1
        /\ loadResult[c].status = "MCPConnectionError"
           => loadResult[c].raised # "none"

\* One load failed at connect and another at the tool listing.
C18_Witness ==
    \E c, d \in Conns :
        /\ loadResult[c].status = "MCPConnectionError"
        /\ loadResult[c].cause = "connect error"
        /\ loadResult[d].status = "MCPConnectionError"
        /\ loadResult[d].cause = "list_tools error"


(***************************************************************************)
(* Claims about bound Tools, checked under SpecBind.                       *)
(***************************************************************************)
\* C7: a call of a bound Tool that omits a required argument raises
\* MCPValidationError naming the tool and the missing arguments; the
\* collaborator's call_tool is not invoked and the error is not wrapped as
\* MCPToolError.
C7_MissingRequiredRaisesValidation ==
    LET missing == Range(tool.required_args) \ DOMAIN lastCall.kwargs
    IN  (lastCall.target = "base" /\ missing # {})
        => /\ lastCall.out.kind = "MCPValidationError"
           /\ lastCall.out.tool = tool.name
           /\ lastCall.out.missing = missing
           /\ ~lastCall.out.invoked

\* A Tool with two required arguments was called with one of them.
C7_Witness ==
    /\ lastCall.target = "base"
    /\ Cardinality(Range(tool.required_args)) = 2
    /\ Cardinality(Range(tool.required_args) \ DOMAIN lastCall.kwargs) = 1
    /\ lastCall.out.kind = "MCPValidationError"

\* C8: for a schema whose required list is R and whose properties are R and O,
\* disjoint, the bound Tool has required_args = R and optional_args = O as
\* sets; a schema with no keys gives two empty lists.
C8_RequiredAndOptionalSets ==
    tool.bound =>
        LET sch == tool.input_schema
            R == Range(sch.req)
            P == Range(sch.props)
        IN  /\ R \subseteq P
               => /\ Range(tool.required_args) = R
                  /\ Range(tool.optional_args) = P \ R
                  /\ Len(tool.required_args) = Cardinality(R)
                  /\ Len(tool.optional_args) = Cardinality(P \ R)
            /\ sch.keys = {}
               => tool.required_args = <<>> /\ tool.optional_args = <<>>

\* A Tool bound from a schema with a required and an optional property.
C8_Witness ==
    /\ tool.bound
    /\ Range(tool.input_schema.req) = {"x"}
    /\ Range(tool.input_schema.props) = {"x", "y"}
    /\ tool.required_args = <<"x">>
    /\ tool.optional_args = <<"y">>

(***************************************************************************)
(* Claims about ArgTransform, checked under SpecArgTransform.              *)
(***************************************************************************)
\* C9: ArgTransform raises a configuration error for hide=True with neither a
\* default nor a default factory, for a default together with a default
\* factory, and for a default factory with hide=False; hide=True with a
\* default (a value other than None) and no factory is accepted.
C9_ArgTransformRules ==
    argT.result # "none" =>
        /\ (argT.hide /\ argT.default = None /\ argT.default_factory = None)
           => argT.result \in ConfigErrors
        /\ (argT.default # None /\ argT.default_factory # None)
           => argT.result \in ConfigErrors
        /\ (argT.default_factory # None /\ ~argT.hide)
           => argT.result \in ConfigErrors
        /\ (argT.hide /\ argT.default # None /\ argT.default_factory = None)
           => argT.result = "ok"

\* ArgTransform(hide=True, default=0) was constructed and accepted.
C9_Witness ==
    argT.hide /\ argT.default = "0" /\ argT.result = "ok"

(***************************************************************************)
(* Claims about transform_tool, checked under SpecTransform.               *)
(***************************************************************************)
\* C10: transform_tool with a hide+default ArgTransform on y, applied to a
\* base Tool requiring {x, y}, gives a Tool whose required set is {x}; called
\* with only x it calls the collaborator with x and with y = the default.
C10_HideDefaultDerivedTool ==
    (/\ derived.bound
     /\ Range(tool.required_args) = {"x", "y"}
     /\ DOMAIN xargs = {"y"}
     /\ xargs["y"].hide /\ xargs["y"].default # None)
    => /\ Range(derived.required_args) = {"x"}
       /\ (lastCall.target = "derived" /\ DOMAIN lastCall.kwargs = {"x"})
          => /\ lastCall.out.invoked
             /\ lastCall.out.arguments =
                   [a \in {"x", "y"} |-> IF a = "x" THEN lastCall.kwargs["x"]
                                         ELSE xargs["y"].default]

\* C11: the Tool transform_tool returned has the name and the description
\* given as overrides, and the base Tool's name and description where an
\* override was omitted (left None).
C11_OverridesCarried ==
    derived.bound
    => /\ derived.name = IF xover.name # None THEN xover.name ELSE tool.name
       /\ derived.description = IF xover.description # None
                                THEN xover.description
                                ELSE tool.description

\* C12: transform_tool returns a new Tool, an object distinct from the base,
\* and leaves the base as create_tool made it: its name, description, schema
\* and executor, and its required set, are the original ones.
C12_NewToolBaseUntouched ==
    derived.bound
    => /\ derived.oid # tool.oid
       /\ \E order \in Perms(Range(SchemaRequired(tool.input_schema))) :
             tool = CreateToolValue("search", None, tool.input_schema, order)
       /\ lastCall.target = "base"
          => lastCall.out = CallTool(tool, lastCall.kwargs, None, "True",
                                     lastCall.resp)

(***************************************************************************)
(* Claims about ToolCollection, checked under SpecColl.                    *)
(***************************************************************************)
\* C13: looking up by name (collection.<name>) a tool that is not in the
\* collection raises a lookup error whose message contains the requested
\* name and every name of the collection.
C13_AbsentLookupListsNames ==
    (lookup.op = "getattr" /\ lookup.name \notin Range(Keys(coll.tools)))
    => /\ lookup.out.kind = "AttributeError"
       /\ lookup.name \in Range(lookup.out.msg)
       /\ Range(Keys(coll.tools)) \subseteq Range(lookup.out.msg)

\* C14: for a name that is a key of the collection, collection.<name> and
\* collection.get(name) return the Tool stored under it; get of a name that
\* is not a key returns None and does not raise.
C14_NameAccessReturnsStored ==
    /\ (lookup.op \in {"getattr", "get"}
        /\ lookup.name \in Range(Keys(coll.tools)))
       => lookup.out = Returned(Stored(coll.tools, lookup.name))
    /\ (lookup.op = "get" /\ lookup.name \notin Range(Keys(coll.tools)))
       => lookup.out = Returned(None)

(***************************************************************************)
(* Claims about generate_types_file, checked under SpecGen.                *)
(***************************************************************************)
\* Reading the generated text: the properties and the required names of the
\* schema given; the line that declares field p (codegen.py:97, 148-152,
\* 193: the indentation, then the name); whether a field line is marked
\* optional (Optional[...] where the type begins, lines 80 and 144, or "?"
\* after the name, line 192); and the first piece of its type.
GenProps == IF Len(genIn.schemas) = 1 THEN genIn.schemas[1].properties ELSE <<>>
GenRequired == IF Len(genIn.schemas) = 1 THEN genIn.schemas[1].required ELSE {}
InputsGenerated == genOut.kind = "text" /\ genIn.only # "output"
IsFieldLine(l, p) == Len(l) >= 4 /\ l[1] \in {"    ", "  "} /\ l[2] = p
FieldLines(p) == {i \in DOMAIN genOut.lines : IsFieldLine(genOut.lines[i], p)}
FieldLine(p) == genOut.lines[CHOOSE i \in FieldLines(p) : TRUE]
IsOptionalField(l) ==
    IF genIn.format = "typescript" THEN l[3] = "?" ELSE l[4] = "Optional["
FieldType(l) == IF genIn.format = "typescript" THEN l[5] ELSE l[4]

\* C15: generate_types_file called with a format other than pydantic,
\* dataclass and typescript raises ValueError and returns no text: it
\* generates nothing in a default format.
C15_UnknownFormatRaises ==
    (genOut # NoGen /\ genIn.format \notin {"pydantic", "dataclass", "typescript"})
    => genOut = [kind |-> "ValueError", lines |-> <<>>]

\* A schema was given with format "json" and the call raised.
C15_Witness ==
    /\ genIn.format = "json" /\ Len(genIn.schemas) = 1
    /\ genOut.kind = "ValueError"

\* C16: in every supported format, a property that is not required and
\* declares a default gets a field that is marked optional and whose line
\* carries the default as a literal.
C16_OptionalDefaultCarried ==
    InputsGenerated
    => \A j \in DOMAIN GenProps :
          LET pr == GenProps[j] IN
          (pr.name \notin GenRequired /\ pr.schema.default # NoDefault)
          => /\ Cardinality(FieldLines(pr.name)) = 1
             /\ IsOptionalField(FieldLine(pr.name))
             /\ Repr(pr.schema.default) \in Range(FieldLine(pr.name))

\* C17 as stated: in every supported format a required integer property
\* gets one field of its name, not optional, of the notation's integer type,
\* and an integer and a number property get distinct types.
C17_IntegerDistinctEverywhere ==
    InputsGenerated
    => \A j \in DOMAIN GenProps :
          LET pr == GenProps[j] IN
          (pr.schema.type = "integer" /\ pr.name \in GenRequired)
          => /\ Cardinality(FieldLines(pr.name)) = 1
             /\ ~IsOptionalField(FieldLine(pr.name))
             /\ FieldType(FieldLine(pr.name)) =
                   IF genIn.format = "typescript" THEN "number" ELSE "int"
             /\ \A k \in DOMAIN GenProps :
                   (GenProps[k].schema.type = "number"
                    /\ GenProps[k].name \in GenRequired)
                   => FieldType(FieldLine(GenProps[k].name))
                         # FieldType(FieldLine(pr.name))

\* C17, amended: in every supported format a required integer property gets
\* one field of its name, not optional, of type int in pydantic and
\* dataclass and number in typescript; an integer and a number property get
\* distinct types (int, float) in pydantic and dataclass and the same type
\* (number) in typescript.
C17_IntegerField ==
    InputsGenerated
    => \A j \in DOMAIN GenProps :
          LET pr == GenProps[j] IN
          (pr.schema.type = "integer" /\ pr.name \in GenRequired)
          => /\ Cardinality(FieldLines(pr.name)) = 1
             /\ ~IsOptionalField(FieldLine(pr.name))
             /\ FieldType(FieldLine(pr.name)) =
                   IF genIn.format = "typescript" THEN "number" ELSE "int"
             /\ \A k \in DOMAIN GenProps :
                   (GenProps[k].schema.type = "number"
                    /\ GenProps[k].name \in GenRequired)
                   => FieldType(FieldLine(GenProps[k].name)) =
                         IF genIn.format = "typescript" THEN "number"
                         ELSE "float"

\* A typescript interface was generated for a schema whose required
\* properties are an integer x and a number y.
C17_Witness ==
    /\ InputsGenerated /\ genIn.format = "typescript"
    /\ Len(GenProps) = 2 /\ GenRequired = {"x", "y"}
    /\ GenProps[1].name = "x" /\ GenProps[1].schema.type = "integer"
    /\ GenProps[2].schema.type = "number"
    /\ Cardinality(FieldLines("x")) = 1

(***************************************************************************)
(* Claims about the answers of the collaborator, checked under             *)
(* SpecRespond.                                                            *)
(***************************************************************************)
\* A call of the bound Tool reached the collaborator, which returned a
\* result, and the result is not to be returned as an error record.
ResultNormalized ==
    /\ lastCall.target = "base" /\ lastCall.out.invoked
    /\ lastCall.resp.raises = "none"
    /\ lastCall.raise_on_error = "True" \/ lastCall.resp.is_error # "True"
HasData == lastCall.resp.data \notin {Missing, None}
HasStructured == lastCall.resp.structured_content \notin {Missing, None}
FirstBlockIsText ==
    /\ lastCall.resp.has_content /\ lastCall.resp.content # <<>>
    /\ lastCall.resp.content[1].text # Missing

\* C19 as stated: the executor returns the data payload if present and not
\* None; else the structured payload if present and not None; else the text
\* of the first content block if it is text-like; else the raw result object
\* unchanged.
C19_PriorityElseRawResult ==
    ResultNormalized
    => /\ lastCall.out.kind = "value"
       /\ lastCall.out.val =
             IF HasData THEN Return("data", lastCall.resp.data, <<>>)
             ELSE IF HasStructured
             THEN Return("structured_content",
                         lastCall.resp.structured_content, <<>>)
             ELSE IF FirstBlockIsText
             THEN Return("text", lastCall.resp.content[1].text, <<>>)
             ELSE Return("result", None, <<>>)

\* C19, amended: the executor returns the data payload if present and not
\* None; else the structured payload if present and not None; else the text
\* of the first content block if it is text-like; else the content list if
\* the result has a content attribute; else the raw result object unchanged.
C19_NormalizationPriority ==
    ResultNormalized
    => /\ lastCall.out.kind = "value"
       /\ lastCall.out.val =
             IF HasData THEN Return("data", lastCall.resp.data, <<>>)
             ELSE IF HasStructured
             THEN Return("structured_content",
                         lastCall.resp.structured_content, <<>>)
             ELSE IF FirstBlockIsText
             THEN Return("text", lastCall.resp.content[1].text, <<>>)
             ELSE IF lastCall.resp.has_content
             THEN Return("content", None, lastCall.resp.content)
             ELSE Return("result", None, <<>>)

\* The collaborator returned a result with no data, no structured payload
\* and an image as its only content block, and the call returned the
\* content list.
C19_Witness ==
    /\ ResultNormalized /\ ~HasData /\ ~HasStructured
    /\ lastCall.resp.content = <<ImageBlock>>
    /\ lastCall.out.val = Return("content", None, <<ImageBlock>>)

\* C20: a failure raised by the collaborator's call_tool during a valid
\* call, of a bound Tool or of a server method, reaches the caller as
\* MCPToolError with the tool's name and the original error as its cause.
C20_FailureWrappedWithCause ==
    (/\ lastCall.target \in {"base", "server_method"}
     /\ lastCall.out.invoked
     /\ lastCall.resp.raises # "none")
    => /\ lastCall.out.kind = "MCPToolError"
       /\ lastCall.out.tool = tool.name
       /\ lastCall.out.cause = lastCall.resp.raises

\* A bound Tool requiring x and y was called with both and the peer reported
\* an error.
C20_Witness ==
    /\ lastCall.target = "base"
    /\ tool.executor.required = {"x", "y"}
    /\ lastCall.resp.raises = "peer error"
    /\ lastCall.out.kind = "MCPToolError"

(***************************************************************************)
(* Claims about the server class                                           *)
(***************************************************************************)
\* C25: when two tool descriptors of a listing normalize to the same name,
\* the later one in listing order is the one bound under that name, and the
\* tools of the server object have exactly one entry under that name.
C25_LaterWinsOneEntry ==
    server.made =>
        \A i, j \in DOMAIN server.listing :
            (i < j /\ ToSnakeCase(server.listing[i]) = ToSnakeCase(server.listing[j]))
            => LET name == ToSnakeCase(server.listing[j])
                   last == CHOOSE n \in DOMAIN server.listing :
                              /\ ToSnakeCase(server.listing[n]) = name
                              /\ \A m \in DOMAIN server.listing :
                                    ToSnakeCase(server.listing[m]) = name => m <= n
               IN  /\ \A e \in Range(server.tools_map) \cup Range(server.methods) :
                          e.key = name => e.tool = last
                   /\ Cardinality({e \in DOMAIN server.tools_map :
                                      server.tools_map[e].key = name}) = 1
                   /\ Cardinality({e \in DOMAIN server.methods :
                                      server.methods[e].key = name}) = 1
                   /\ Cardinality({e \in DOMAIN server.tools :
                                      server.tools[e].name = name}) = 1

\* C26: a server method called without a required argument of its tool's
\* schema fails with a validation error, and the collaborator's call_tool is
\* not invoked.
C26_ServerMethodValidates ==
    (/\ lastCall.target = "server_method"
     /\ tool.executor.required \ DOMAIN lastCall.kwargs # {})
    => /\ lastCall.out.kind = "MCPValidationError"
       /\ ~lastCall.out.invoked

(***************************************************************************)
(* Claims about loading                                                    *)
(***************************************************************************)
\* C27: a load fails exactly when connecting or the tool listing fails; a
\* load that succeeds has an empty list for each of resources and prompts
\* whose listing failed, and the listed ones for the others.
C27_OptionalListingsDegrade ==
    \A c \in Conns :
        loadResult[c].status # "none"
        => /\ loadResult[c].status = "ok"
              <=> loadResult[c].faults \cap {"connect", "list_tools"} = {}
           /\ loadResult[c].status = "ok"
              => /\ conn[c] # "failed"
                 /\ loadResult[c].resources =
                        IF "list_resources" \in loadResult[c].faults
                        THEN "empty" ELSE "listed"
                 /\ loadResult[c].prompts =
                        IF "list_prompts" \in loadResult[c].faults
                        THEN "empty" ELSE "listed"
           /\ loadResult[c].status # "ok"
              => /\ loadResult[c].status = "MCPConnectionError"
                 /\ conn[c] = "failed"

\* A load succeeded although both optional listings failed, and a tool of the
\* connection was called.
C27_Witness ==
    \E c \in Conns :
        /\ loadResult[c].faults = {"list_resources", "list_prompts"}
        /\ loadResult[c].status = "ok"
        /\ loadResult[c].resources = "empty" /\ loadResult[c].prompts = "empty"
        /\ \E e \in io : e.conn = c /\ e.op = "call_tool"

(***************************************************************************)
(* Claims about the views of a collection                                  *)
(***************************************************************************)
\* C28: iterating a ToolCollection gives its tools in insertion order, list()
\* its names in that order, toList() the callable of each tool in that
\* order, len() the number of its names; and no lookup, get, iteration,
\* list(), len() or toList() changes the collection.
C28_ConsistentSnapshot ==
    [][/\ coll.made => coll' = coll
       /\ view'.op \in {"iter", "list", "toList"}
          => /\ Len(view'.items) = Len(coll'.tools)
             /\ \A i \in DOMAIN view'.items :
                   view'.items[i] =
                      CASE view'.op = "iter" ->
                              [kind |-> "tool", of |-> coll'.tools[i].tool]
                        [] view'.op = "list" ->
                              [kind |-> "name", of |-> coll'.tools[i].key]
                        [] view'.op = "toList" ->
                              [kind |-> "executor", of |-> coll'.tools[i].tool]
       /\ view'.op = "len"
          => view'.n = Cardinality({coll'.tools[i].key : i \in DOMAIN coll'.tools})
      ]_vars

\* A collection made with search before get gave its names in that order.
C28_Witness ==
    /\ coll.made
    /\ Keys(coll.tools) = <<"search", "get">>
    /\ view.op = "list"
    /\ view.items = <<[kind |-> "name", of |-> "search"],
                      [kind |-> "name", of |-> "get"]>>

(***************************************************************************)
(* Claims about the configuration builder                                  *)
(***************************************************************************)
\* The keys a dict of environment variables has.
EnvKeysOf(env) == {k \in EnvKeys : env[k] # Missing}

ToolKwargs(keywords) == [k \in DOMAIN keywords \ OptionNames |-> keywords[k]]

\* C30: when a Tool is called, the arguments given to the collaborator's
\* call_tool are the caller's tool arguments and none of the options under
\* either of their names; the options do not count as arguments when the
\* required ones are checked; and timeout, progress_handler and meta are
\* given to call_tool exactly when they are not None.
C30_ArgumentsExcludeOptions ==
    (/\ lastCall.target = "tool"
     /\ lastCall.out.kind # "TypeError")
    => LET given == ToolKwargs(lastCall.kwargs)
           missing == tool.executor.required \ DOMAIN given
       IN  /\ lastCall.out.invoked <=> missing = {}
           /\ ~lastCall.out.invoked
              => /\ lastCall.out.kind = "MCPValidationError"
                 /\ lastCall.out.missing = missing
           /\ lastCall.out.invoked
              => /\ lastCall.out.arguments = given
                 /\ DOMAIN lastCall.out.arguments
                        \cap (OptionNames \cup ControlKeys) = {}
                 /\ DOMAIN lastCall.out.options =
                        {o \in {"timeout", "progress_handler", "meta"} :
                            o \in DOMAIN lastCall.kwargs /\ lastCall.kwargs[o] # None}
                 /\ \A o \in DOMAIN lastCall.out.options :
                        lastCall.out.options[o] = lastCall.kwargs[o]

\* A tool requiring x was called with x, a timeout and a meta, and with
\* progress_handler None: call_tool got x as its arguments, and the timeout
\* and the meta.
C30_Witness ==
    /\ lastCall.target = "tool"
    /\ tool.executor.required = {"x"}
    /\ DOMAIN lastCall.kwargs = {"x", "timeout", "progress_handler", "meta"}
    /\ lastCall.kwargs["progress_handler"] = None
    /\ lastCall.out.invoked
    /\ DOMAIN lastCall.out.arguments = {"x"}
    /\ DOMAIN lastCall.out.options = {"timeout", "meta"}

====
